---- MODULE Spec2Model ----
(***************************************************************************)
(* Verification model of the 5ULTRA variant-effect annotation engine       *)
(* (src/5ULTRA/scripts/detection.py): the coordinate mapper, the Kozak     *)
(* classifier, the new-uORF discovery and the consequence classifier.      *)
(*                                                                         *)
(* Nucleotide strings are modelled as sequences of one-character strings,  *)
(* 0-based Python indices are kept as they are in the code, and Python's   *)
(* slicing rules (negative indices, clamping) are modelled by PySlice.     *)
(***************************************************************************)
EXTENDS Integers, Sequences, FiniteSets, TLC

VARIABLES
    pc,                 \* position of the running call
    exons,              \* coordinate mapper: exon list argument
    strand,             \* coordinate mapper: strand argument
    position,           \* coordinate mapper: genomic position argument
    distance,           \* coordinate mapper: result of calculate_distance_from_five_cap
    genomic,            \* coordinate mapper: result of calculate_genomic_position_from_five_cap
    kozak_sequence,     \* Kozak classifier: argument
    strength,           \* Kozak classifier: result
    UTR,                \* process_variant: the 5'UTR row under evaluation
    transcript_uorfs,   \* process_variant: the known uORF rows of the UTR's transcript
    variant,            \* process_variant: the input variant row
    relativePosition,   \* process_variant: local of the same name
    mutatedSequence,    \* process_variant: local of the same name
    startPOS,           \* process_variant: local of the same name
    CSQ,                \* process_variant: <<tags, directions>>, the two lists of CSQ
    uORFAnnotations,    \* process_variant: local of the same name
    nextUORF,           \* process_variant: index of the next known uORF of the loop
    result,             \* process_variant: rows appended for this UTR
    tabix,              \* get_score: the conservation-score files, one per track
    input_variants,     \* process_variants / main: the data rows of the input
    nextVariant,        \* process_variants: index of the next row of the loop
    output_rows,        \* process_variants / main: rows written to the output file
    transcript_INTRONs, \* process_variant_spliceai_2: intron rows of the UTR's transcript
    files,              \* main: reference files present in the data directory
    splice,             \* main: the --splice option
    processed,          \* main: the stages that have read variant rows so far
    exit_status,        \* main: None while running, then the exit status
    bed_lines,          \* filter_input: the data lines of the BED file
    bed_by_chrom        \* filter_input: the regions read_bed_file returns, by chromosome key

cmVars == <<exons, strand, position, distance, genomic>>
kzVars == <<kozak_sequence, strength>>
pvVars == <<UTR, transcript_uorfs, variant, relativePosition, mutatedSequence, startPOS,
            CSQ, uORFAnnotations, nextUORF, result>>
bvVars == <<input_variants, nextVariant, output_rows>>
mnVars == <<files, splice, processed, exit_status>>
flVars == <<bed_lines, bed_by_chrom>>
envVars == <<tabix, bvVars, transcript_INTRONs, mnVars, flVars>>
vars == <<pc, cmVars, kzVars, pvVars, envVars>>

None == "None"

Bases == {"A", "C", "G", "T"}

(***************************************************************************)
(* Python helpers                                                          *)
(***************************************************************************)

\* Python's normalisation of a slice bound i for a sequence of length n.
PyBound(n, i) ==
    IF i < 0 THEN (IF i + n < 0 THEN 0 ELSE i + n)
    ELSE (IF i > n THEN n ELSE i)

\* Python's s[a:b] (0-based, b exclusive, negative bounds count from the end).
PySlice(s, a, b) ==
    LET lo == PyBound(Len(s), a)
        hi == PyBound(Len(s), b)
    IN  IF lo >= hi THEN <<>> ELSE SubSeq(s, lo + 1, hi)

\* Python's s[a:] .
PyFrom(s, a) == PySlice(s, a, Len(s))

\* Python's s[i] for an index the code knows to be valid (negative from the end).
PyAt(s, i) == IF i < 0 THEN s[Len(s) + i + 1] ELSE s[i + 1]

\* Python's `sub in s` for sequences of characters.
Contains(s, sub) ==
    \E i \in 0..(Len(s) - Len(sub)) : SubSeq(s, i + 1, i + Len(sub)) = sub

Reverse(s) == [i \in 1..Len(s) |-> s[Len(s) + 1 - i]]

ATG == <<"A", "T", "G">>

STOP_CODONS == {<<"T", "A", "A">>, <<"T", "A", "G">>, <<"T", "G", "A">>}

BASE_PAIRING(nuc) ==
    CASE nuc = "A" -> "T"
      [] nuc = "T" -> "A"
      [] nuc = "G" -> "C"
      [] nuc = "C" -> "G"
      [] nuc = "*" -> "*"
      [] OTHER -> "N"

rev_seq(fwd_seq) == [i \in 1..Len(fwd_seq) |-> BASE_PAIRING(fwd_seq[Len(fwd_seq) + 1 - i])]

(***************************************************************************)
(* Coordinate mapper                                                       *)
(***************************************************************************)

\* exons.sort(key=lambda x: x[0]) : insertion of one exon into a sorted list.
RECURSIVE InsertExon(_, _)
InsertExon(sorted, ex) ==
    IF sorted = <<>> THEN <<ex>>
    ELSE IF ex[1] < Head(sorted)[1] THEN <<ex>> \o sorted
    ELSE <<Head(sorted)>> \o InsertExon(Tail(sorted), ex)

RECURSIVE SortExons(_)
SortExons(ex) ==
    IF ex = <<>> THEN <<>> ELSE InsertExon(SortExons(Tail(ex)), Head(ex))

\* The exon list in transcript order: ascending for "+", descending for "-".
TranscriptOrder(ex, st) == IF st = "+" THEN SortExons(ex) ELSE Reverse(SortExons(ex))

RECURSIVE DistanceLoop(_, _, _, _, _)
DistanceLoop(ex, st, pos, i, dist) ==
    IF i > Len(ex) THEN dist
    ELSE LET exon_start == ex[i][1]
             exon_end == ex[i][2]
         IN  IF (st = "+" /\ exon_end < pos) \/ (st = "-" /\ exon_start > pos)
             THEN DistanceLoop(ex, st, pos, i + 1, dist + exon_end - exon_start + 1)
             ELSE IF (st = "+" /\ exon_start < pos) \/ (st = "-" /\ exon_end > pos)
             THEN dist + (IF st = "+" THEN pos - exon_start ELSE exon_end - pos)
             ELSE DistanceLoop(ex, st, pos, i + 1, dist)

calculate_distance_from_five_cap(ex, st, pos) ==
    DistanceLoop(TranscriptOrder(ex, st), st, pos, 1, 0)

RECURSIVE GenomicLoop(_, _, _, _)
GenomicLoop(ex, st, i, remaining_distance) ==
    LET exon_start == ex[i][1]
        exon_end == ex[i][2]
        exon_length == exon_end - exon_start + 1
    IN  IF remaining_distance <= exon_length
        THEN (IF st = "+" THEN exon_start + remaining_distance
                          ELSE exon_end - remaining_distance)
        ELSE IF i = Len(ex)
        THEN (IF st = "+" THEN exon_start + (remaining_distance - exon_length)
                          ELSE exon_end - (remaining_distance - exon_length))
        ELSE GenomicLoop(ex, st, i + 1, remaining_distance - exon_length)

calculate_genomic_position_from_five_cap(ex, st, dist) ==
    GenomicLoop(TranscriptOrder(ex, st), st, 1, dist)

InExon(ex, pos) == \E i \in 1..Len(ex) : ex[i][1] <= pos /\ pos <= ex[i][2]

(***************************************************************************)
(* Kozak classifier                                                        *)
(***************************************************************************)

calculate_kozak_strength(seq) ==
    IF seq = <<>> \/ Len(seq) < 9 THEN ""
    ELSE LET c1 == PyAt(seq, 1) \in {"A", "G"}
             c2 == PyAt(seq, -2) = "G"
         IN  IF c1 /\ c2 THEN "Strong"
             ELSE IF c1 \/ c2 THEN "Adequate"
             ELSE "Weak"

(***************************************************************************)
(* New-uORF discovery                                                      *)
(***************************************************************************)

\* while mutatedSequence[uORF_START: uORF_START + 3] != 'ATG': uORF_START += 1
\* (the caller has found an ATG at or after relativePosition - 2).
RECURSIVE FindStart(_, _)
FindStart(seq, uORF_START) ==
    IF PySlice(seq, uORF_START, uORF_START + 3) # ATG
    THEN FindStart(seq, uORF_START + 1)
    ELSE uORF_START

\* while seq[c: c + 3] not in STOP_CODONS and c < len(seq): c += 3
RECURSIVE ScanStop(_, _)
ScanStop(seq, c) ==
    IF PySlice(seq, c, c + 3) \notin STOP_CODONS /\ c < Len(seq)
    THEN ScanStop(seq, c + 3)
    ELSE c

\* The frame end taken one base past the last base of the stop codon.
NewUORFEndPastStop(seq, uORF_START) == ScanStop(seq, uORF_START + 3) + 3

\* The index of the last base of the frame scanned from uORF_START.
NewUORFEnd(seq, uORF_START) == ScanStop(seq, uORF_START + 3) + 2

NewUORFType(uORF_START, uORF_END, mainStart) ==
    IF uORF_END < mainStart THEN "Non-Overlapping"
    ELSE IF (mainStart - uORF_START) % 3 = 0 THEN "N-terminal extension"
    ELSE "Overlapping"

\* The length measured between the two ends instead of over them.
NewUORFLengthBetween(uORF_START, uORF_END, mainStart, uORF_TYPE) ==
    IF uORF_TYPE # "N-terminal extension" THEN uORF_END - uORF_START - 1
    ELSE mainStart - uORF_START

NewUORFLength(uORF_START, uORF_END, mainStart, uORF_TYPE) ==
    IF uORF_TYPE # "N-terminal extension" THEN uORF_END - uORF_START + 1
    ELSE mainStart - uORF_START

\* The conservation-score oracle.  tabix[track] is the file of one track:
\* whether pysam can open and read it, and the last column of the record it
\* holds at a position, None where it holds no record.  The scores of a file
\* repeat with period three, so that the three positions of a start codon see
\* every combination of answers.
Tracks == {"phyloP", "phastCons"}

\* Lines 98-107: the last column of the first record at pos; None when there is
\* no record, and None when opening or reading the file raises.
get_score(chrom, pos, track) ==
    IF ~tabix[track].available THEN None
    ELSE tabix[track].scores[pos % 3]

\* float(value) for the score strings of the model.
FloatOf == ("0" :> 0) @@ ("3" :> 3) @@ ("-6" :> -6)

\* Lines 16-22: float(value) does not raise ValueError.
is_valid_number(value) == value \in DOMAIN FloatOf

\* A mean is kept as the pair <<sum, len>> of the numbers averaged; "NA", the
\* value given when there is no number to average, is the pair of no numbers.
NA == <<0, 0>>

RECURSIVE SumOf(_)
SumOf(numbers) == IF numbers = <<>> THEN 0 ELSE Head(numbers) + SumOf(Tail(numbers))

\* Lines 134-135 and 141-142: the scores that are truthy strings and valid
\* numbers are converted and averaged; the mean sum / len is kept as the pair
\* <<sum, len>>.
MeanScore(scores) ==
    LET kept == SelectSeq(scores, LAMBDA x : x # None /\ x # "" /\ is_valid_number(x))
        numbers == [i \in 1..Len(kept) |-> FloatOf[kept[i]]]
    IN  IF numbers = <<>> THEN NA ELSE <<SumOf(numbers), Len(numbers)>>

uStart_gain(relPos, mutSeq, mainStart, st, ex, chrom) ==
    LET uORF_START == FindStart(mutSeq, relPos - 2)
        uORF_END == NewUORFEnd(mutSeq, uORF_START)
        uSTART_mSTART_DIST == mainStart - uORF_START
        uSTOP_CODON == PySlice(mutSeq, uORF_END - 2, uORF_END + 1)
        uORF_TYPE == NewUORFType(uORF_START, uORF_END, mainStart)
        uKOZAK == PySlice(mutSeq, uORF_START - 4, uORF_START + 5)
        uKOZAK_STRENGTH == calculate_kozak_strength(uKOZAK)
        uORF_LENGTH == NewUORFLength(uORF_START, uORF_END, mainStart, uORF_TYPE)
        uORF_START_GENOMIC == calculate_genomic_position_from_five_cap(ex, st, uORF_START)
        step == IF st = "+" THEN 1 ELSE -1
        pos1 == uORF_START_GENOMIC
        pos2 == uORF_START_GENOMIC + step
        pos3 == uORF_START_GENOMIC + 2 * step
        mean_phylop == MeanScore(<<get_score(chrom, pos1, "phyloP"),
                                   get_score(chrom, pos2, "phyloP"),
                                   get_score(chrom, pos3, "phyloP")>>)
        mean_phastcons == MeanScore(<<get_score(chrom, pos1, "phastCons"),
                                      get_score(chrom, pos2, "phastCons"),
                                      get_score(chrom, pos3, "phastCons")>>)
        uORF_END_GENOMIC == calculate_genomic_position_from_five_cap(ex, st, uORF_END)
    IN  <<uORF_START_GENOMIC, uORF_END_GENOMIC, "000", uSTART_mSTART_DIST, ATG,
          uSTOP_CODON, uORF_TYPE, uKOZAK, uKOZAK_STRENGTH,
          uORF_LENGTH, <<uORF_LENGTH, 3>>, "", "", mean_phylop, mean_phastcons>>

\* Positions of the fields of an annotation row (uORFAnnotations[i]).
A_DIST == 4
A_START_CODON == 5
A_STOP_CODON == 6
A_TYPE == 7
A_KOZAK == 8
A_STRENGTH == 9
A_LENGTH == 10
A_PHYLOP == 14
A_PHASTCONS == 15

(***************************************************************************)
(* Consequence classifier: process_variant for one (variant, UTR) pair     *)
(***************************************************************************)

KOZAK_STRENGTH(s) ==
    CASE s = "Weak" -> 0
      [] s = "Adequate" -> 1
      [] s = "Strong" -> 2
      [] s = "" -> "nan"

KnownStrength(s) == s \in {"Weak", "Adequate", "Strong", ""}

\* KOZAK_STRENGTH[a] < KOZAK_STRENGTH[b]: every comparison with nan is False.
StrengthLess(a, b) ==
    /\ a # "" /\ b # ""
    /\ KOZAK_STRENGTH(a) < KOZAK_STRENGTH(b)

\* ALT as process_variant reads it: '<DEL>' and '.' stand for the empty allele.
NormALT(raw) == IF raw = <<"<DEL>">> \/ raw = <<".">> THEN <<>> ELSE raw

\* CHR = variant[0] if 'chr' in variant[0] else 'chr' + variant[0]
NormCHR(c) == IF c \in {"chr1", "chr2"} THEN c ELSE IF c = "1" THEN "chr1" ELSE "chr2"

LenREF == Len(variant.REF)
ALT == NormALT(variant.ALT)
LenALT == Len(ALT)
wtSEQ == UTR.wtSEQ

\* The exon test on the first base of the reference allele only.
AdmittedFirstBase ==
    /\ UTR.chrom = NormCHR(variant.chrom)
    /\ UTR.start < variant.POS /\ variant.POS < UTR.end
    /\ \E i \in 1..Len(UTR.exons) :
          UTR.exons[i][1] <= variant.POS /\ variant.POS <= UTR.exons[i][2]

Admitted ==
    /\ UTR.chrom = NormCHR(variant.chrom)
    /\ UTR.start < variant.POS /\ variant.POS < UTR.end
    /\ \E i \in 1..Len(UTR.exons) :
          /\ UTR.exons[i][1] <= variant.POS /\ variant.POS <= UTR.exons[i][2]
          /\ UTR.exons[i][1] <= variant.POS + LenREF - 1
          /\ variant.POS + LenREF - 1 <= UTR.exons[i][2]

\* Lines 159-171: the UTR is skipped unless the variant lies in its span and
\* the reference allele lies in one exon.
Admit ==
    /\ pc = "start"
    /\ pc' = IF Admitted THEN "in" ELSE "skipped"
    /\ result' = <<>>
    /\ CSQ' = <<<<>>, <<>>>>
    /\ uORFAnnotations' = <<>>
    /\ UNCHANGED <<envVars, cmVars, kzVars, UTR, transcript_uorfs, variant, relativePosition,
                   mutatedSequence, startPOS, nextUORF>>

RelativePositionOf(utr, pos, lenRef) ==
    IF utr.strand = "+" /\ lenRef = 1
    THEN calculate_distance_from_five_cap(utr.exons, utr.strand, pos)
    ELSE calculate_distance_from_five_cap(utr.exons, utr.strand, pos + lenRef - 1)

MutatedSequenceOf(seq, st, rel, lenRef, alt) ==
    PySlice(seq, 0, rel) \o (IF st = "+" THEN alt ELSE rev_seq(alt)) \o PyFrom(seq, rel + lenRef)

StartPOSOf(utr, lenRef, lenAlt) ==
    (IF utr.strand = "+"
     THEN calculate_distance_from_five_cap(utr.exons, utr.strand, utr.end)
     ELSE calculate_distance_from_five_cap(utr.exons, utr.strand, utr.start))
    + lenAlt - lenRef

MainStartKept(mutSeq, mainStart) == PySlice(mutSeq, mainStart, mainStart + 3) = ATG

\* Lines 172-180: the edit is applied, the main start is shifted, and the UTR is
\* skipped when the codon at the shifted main start is no longer ATG.
ApplyEdit ==
    /\ pc = "in"
    /\ LET rel == RelativePositionOf(UTR, variant.POS, LenREF)
           mut == MutatedSequenceOf(wtSEQ, UTR.strand, rel, LenREF, ALT)
           sp == StartPOSOf(UTR, LenREF, LenALT)
       IN  /\ relativePosition' = rel
           /\ mutatedSequence' = mut
           /\ startPOS' = sp
           /\ pc' = IF MainStartKept(mut, sp) THEN "mKozak" ELSE "dropped"
    /\ UNCHANGED <<envVars, cmVars, kzVars, UTR, transcript_uorfs, variant, CSQ, uORFAnnotations,
                   nextUORF, result>>

EmptyAnno == [i \in 1..15 |-> ""]

\* A hit whose direction label is not recorded.
HitWithoutDirection(acc, tag, dir, anno) ==
    <<Append(acc[1], tag), acc[2], Append(acc[3], anno)>>

\* Appends one hit to the three accumulators <<tags, directions, annotations>>.
Hit(acc, tag, dir, anno) ==
    <<Append(acc[1], tag), Append(acc[2], dir), Append(acc[3], anno)>>

KozakDiagnosticChange(old, new) ==
    PyAt(old, -2) # PyAt(new, -2) \/ PyAt(old, 1) # PyAt(new, 1) \/ PyAt(old, 3) # PyAt(new, 3)

\* The main-ORF comparison with the labels of the uORF comparison.
MainKozakDirectionSwapped(newStrength, storedStrength) ==
    IF StrengthLess(newStrength, storedStrength) THEN "increased"
    ELSE IF StrengthLess(storedStrength, newStrength) THEN "decreased"
    ELSE None

MainKozakDirection(newStrength, storedStrength) ==
    IF StrengthLess(newStrength, storedStrength) THEN "decreased"
    ELSE IF StrengthLess(storedStrength, newStrength) THEN "increased"
    ELSE None

\* Lines 181-193.
MKozakStep(acc) ==
    LET newKOZAK == PySlice(mutatedSequence, startPOS - 4, startPOS + 5)
    IN  IF Len(newKOZAK) = 9 /\ Len(UTR.kozak) = 9 /\ KozakDiagnosticChange(UTR.kozak, newKOZAK)
        THEN LET cls == calculate_kozak_strength(newKOZAK)
                 newKOZAK_STRENGTH == IF cls = "" THEN UTR.kozak ELSE cls
                 dir == MainKozakDirection(newKOZAK_STRENGTH, UTR.kozak_strength)
             IN  IF ~KnownStrength(newKOZAK_STRENGTH) \/ ~KnownStrength(UTR.kozak_strength)
                 THEN "KeyError"
                 ELSE IF dir = None THEN acc
                 ELSE Hit(acc, "mKozak", dir, EmptyAnno)
        ELSE acc

Acc == <<CSQ[1], CSQ[2], uORFAnnotations>>

SetAcc(acc, nextPc) ==
    IF acc = "KeyError"
    THEN /\ pc' = "error"
         /\ UNCHANGED <<CSQ, uORFAnnotations>>
    ELSE /\ pc' = nextPc
         /\ CSQ' = <<acc[1], acc[2]>>
         /\ uORFAnnotations' = acc[3]

MKozak ==
    /\ pc = "mKozak"
    /\ SetAcc(MKozakStep(Acc), "uStart_gain")
    /\ UNCHANGED <<envVars, cmVars, kzVars, UTR, transcript_uorfs, variant, relativePosition,
                   mutatedSequence, startPOS, nextUORF, result>>

GainWindowHit ==
    /\ Contains(PySlice(mutatedSequence, relativePosition - 2, relativePosition + LenALT + 2), ATG)
    /\ ~Contains(PySlice(wtSEQ, relativePosition - 2, relativePosition + LenREF + 2), ATG)

\* Lines 194-198.
UStartGainStep(acc) ==
    IF GainWindowHit
    THEN LET Anno == uStart_gain(relativePosition, mutatedSequence, startPOS,
                                 UTR.strand, UTR.exons, UTR.chrom)
         IN  Hit(acc, "uStart_gain",
                 IF Anno[A_TYPE] = "N-terminal extension" THEN "N-terminal extension"
                 ELSE "decreased",
                 Anno)
    ELSE acc

UStartGain ==
    /\ pc = "uStart_gain"
    /\ SetAcc(UStartGainStep(Acc),
              IF UTR.n_uorfs # 0 /\ Len(transcript_uorfs) > 0 THEN "uORFs" ELSE "emit")
    /\ nextUORF' = 1
    /\ UNCHANGED <<envVars, cmVars, kzVars, UTR, transcript_uorfs, variant, relativePosition,
                   mutatedSequence, startPOS, result>>

\* Lines 203-212: the relative start and stop of a known uORF, shifted for an
\* insertion or a deletion that lies before them.
ShiftedUORF(uORF, rel, lenRef, lenAlt) ==
    LET uSTART0 == uORF.c8 - uORF.anno[A_DIST]
        uSTOP0 == uSTART0 + uORF.anno[A_LENGTH] - 3
        ins == uSTOP0 >= rel /\ lenRef < lenAlt
        uSTART1 == IF ins /\ uSTART0 >= rel THEN uSTART0 + lenAlt - 1 ELSE uSTART0
        uSTOP1 == IF ins THEN uSTOP0 + lenAlt - 1 ELSE uSTOP0
        del == uSTOP1 >= rel + lenRef /\ lenRef > lenAlt
        uSTART2 == IF del /\ uSTART1 >= rel + lenRef THEN uSTART1 - (lenRef - 1) ELSE uSTART1
        uSTOP2 == IF del THEN uSTOP1 - (lenRef - 1) ELSE uSTOP1
    IN  [uSTART |-> uSTART2, uSTOP |-> uSTOP2]

\* uORF[1:3] + [uORF[4]] + uORF[17:19] + [uORF[19] + " > " + NewUstopCodon] + ...
StopChangeAnno(uORF, NewUstopCodon) ==
    [uORF.anno EXCEPT ![A_STOP_CODON] = <<@, " > ", NewUstopCodon>>]

InUORFWindow(sh, rel) == sh.uSTART - 6 <= rel /\ rel <= sh.uSTOP + 2

UStartLost(uORF, sh, mutSeq) ==
    LET c == PySlice(mutSeq, sh.uSTART, sh.uSTART + 3)
    IN  c # uORF.anno[A_START_CODON] /\ c # ATG

\* The uStop_gain branch with 'increased' for every stored type.
UStopGainStepOneDirection(acc, uORF, sh, codon, mainStart, Anno) ==
    IF codon < sh.uSTOP /\ codon + 2 < mainStart
    THEN IF uORF.anno[A_TYPE] = "Overlapping"
         THEN <<Hit(acc, "uStop_gain to Non-Overlapping", "increased", Anno), TRUE>>
         ELSE IF uORF.anno[A_TYPE] = "N-terminal extension"
         THEN <<Hit(acc, "uStop_gain to Non-Overlapping", "increased", Anno), FALSE>>
         ELSE <<Hit(acc, "uStop_gain shorter Non-Overlapping", "increased", Anno), TRUE>>
    ELSE <<acc, FALSE>>

\* Lines 227-244: <<accumulators, whether the loop continues with the next uORF>>.
UStopGainStep(acc, uORF, sh, codon, mainStart, Anno) ==
    IF codon < sh.uSTOP /\ codon + 2 < mainStart
    THEN IF uORF.anno[A_TYPE] = "Overlapping"
         THEN <<Hit(acc, "uStop_gain to Non-Overlapping", "increased", Anno), TRUE>>
         ELSE IF uORF.anno[A_TYPE] = "N-terminal extension"
         THEN <<Hit(acc, "uStop_gain to Non-Overlapping", "decreased", Anno), FALSE>>
         ELSE <<Hit(acc, "uStop_gain shorter Non-Overlapping", "increased", Anno), TRUE>>
    ELSE <<acc, FALSE>>

\* The uStop_loss branch without the test of the stored type.
UStopLossStepAnyType(acc, uORF, sh, codon, mainStart, Anno) ==
    IF codon > sh.uSTOP
    THEN IF codon >= mainStart /\ (codon - mainStart) % 3 = 0
         THEN Hit(acc, "uStop_loss to N-terminal extension", "N-terminal extension", Anno)
         ELSE IF codon >= mainStart
         THEN Hit(acc, "uStop_loss to Overlapping", "decreased", Anno)
         ELSE Hit(acc, "uStop_loss longer Non-Overlapping", "decreased", Anno)
    ELSE acc

\* Lines 245-260.
UStopLossStep(acc, uORF, sh, codon, mainStart, Anno) ==
    IF codon > sh.uSTOP /\ uORF.anno[A_TYPE] = "Non-Overlapping"
    THEN IF codon >= mainStart /\ (codon - mainStart) % 3 = 0
         THEN Hit(acc, "uStop_loss to N-terminal extension", "N-terminal extension", Anno)
         ELSE IF codon >= mainStart
         THEN Hit(acc, "uStop_loss to Overlapping", "decreased", Anno)
         ELSE Hit(acc, "uStop_loss longer Non-Overlapping", "decreased", Anno)
    ELSE acc

\* The uKozak positions with start - 2 in place of start - 3.
UKozakPositionOffByOne(sh, rel) ==
    sh.uSTART - 1 = rel \/ rel = sh.uSTART - 2 \/ rel = sh.uSTART + 3

UKozakPosition(sh, rel) ==
    sh.uSTART - 1 = rel \/ rel = sh.uSTART - 3 \/ rel = sh.uSTART + 3

\* The uORF comparison with the labels of the main-ORF comparison.
UKozakDirectionOrdinal(newStrength, storedStrength) ==
    IF StrengthLess(newStrength, storedStrength) THEN "decreased"
    ELSE IF StrengthLess(storedStrength, newStrength) THEN "increased"
    ELSE None

UKozakDirection(newStrength, storedStrength) ==
    IF StrengthLess(newStrength, storedStrength) THEN "increased"
    ELSE IF StrengthLess(storedStrength, newStrength) THEN "decreased"
    ELSE None

\* Lines 261-275.
UKozakStep(acc, uORF, sh, rel, mutSeq) ==
    IF UKozakPosition(sh, rel)
    THEN LET newKOZAK == PySlice(mutSeq, sh.uSTART - 4, sh.uSTART + 5)
             cls == calculate_kozak_strength(newKOZAK)
             newKOZAK_STRENGTH == IF cls = "" THEN uORF.anno[A_STRENGTH] ELSE cls
             dir == UKozakDirection(newKOZAK_STRENGTH, uORF.anno[A_STRENGTH])
         IN  IF ~KnownStrength(uORF.anno[A_STRENGTH]) THEN "KeyError"
             ELSE IF dir = None THEN acc
             ELSE Hit(acc, "uKozak", dir, uORF.anno)
    ELSE acc

\* The body of the loop without the `continue` that follows uStart_loss.
KnownUORFStepFallsThrough(acc, uORF) ==
    LET sh == ShiftedUORF(uORF, relativePosition, LenREF, LenALT)
        lost == UStartLost(uORF, sh, mutatedSequence)
        acc1 == IF lost THEN Hit(acc, "uStart_loss", "increased", uORF.anno) ELSE acc
        codon == ScanStop(mutatedSequence, sh.uSTART)
        NewUstopCodon == PySlice(mutatedSequence, codon, codon + 3)
        Anno == StopChangeAnno(uORF, NewUstopCodon)
        gain == UStopGainStep(acc1, uORF, sh, codon, startPOS, Anno)
    IN  IF ~InUORFWindow(sh, relativePosition) THEN acc
        ELSE IF gain[2] THEN gain[1]
        ELSE UKozakStep(UStopLossStep(gain[1], uORF, sh, codon, startPOS, Anno),
                        uORF, sh, relativePosition, mutatedSequence)

\* Lines 203-275: the body of the loop over the known uORFs, for one uORF.
KnownUORFStep(acc, uORF) ==
    LET sh == ShiftedUORF(uORF, relativePosition, LenREF, LenALT)
        codon == ScanStop(mutatedSequence, sh.uSTART)
        NewUstopCodon == PySlice(mutatedSequence, codon, codon + 3)
        Anno == StopChangeAnno(uORF, NewUstopCodon)
        gain == UStopGainStep(acc, uORF, sh, codon, startPOS, Anno)
    IN  IF ~InUORFWindow(sh, relativePosition) THEN acc
        ELSE IF UStartLost(uORF, sh, mutatedSequence)
        THEN Hit(acc, "uStart_loss", "increased", uORF.anno)
        ELSE IF gain[2] THEN gain[1]
        ELSE UKozakStep(UStopLossStep(gain[1], uORF, sh, codon, startPOS, Anno),
                        uORF, sh, relativePosition, mutatedSequence)

KnownUORF ==
    /\ pc = "uORFs"
    /\ SetAcc(KnownUORFStep(Acc, transcript_uorfs[nextUORF]),
              IF nextUORF < Len(transcript_uorfs) THEN "uORFs" ELSE "emit")
    /\ nextUORF' = nextUORF + 1
    /\ UNCHANGED <<envVars, cmVars, kzVars, UTR, transcript_uorfs, variant, relativePosition,
                   mutatedSequence, startPOS, result>>

\* Lines 276-279: one output row per hit.
Emit ==
    /\ pc = "emit"
    /\ result' = [i \in 1..Len(CSQ[1]) |-> <<CSQ[1][i], CSQ[2][i], uORFAnnotations[i]>>]
    /\ pc' = "done"
    /\ UNCHANGED <<envVars, cmVars, kzVars, UTR, transcript_uorfs, variant, relativePosition,
                   mutatedSequence, startPOS, CSQ, uORFAnnotations, nextUORF>>

Next == Admit \/ ApplyEdit \/ MKozak \/ UStartGain \/ KnownUORF \/ Emit

(***************************************************************************)
(* Reference data: 5'UTR rows and known-uORF rows                           *)
(***************************************************************************)

ExonLength(exon) == exon[2] - exon[1] + 1

RECURSIVE TotalLength(_)
TotalLength(ex) == IF ex = <<>> THEN 0 ELSE ExonLength(Head(ex)) + TotalLength(Tail(ex))

\* The transcript index (0-based, from the 5' cap) of an exonic genomic position.
TranscriptIndex(ex, st, g) ==
    LET ord == TranscriptOrder(ex, st)
        k == CHOOSE i \in 1..Len(ord) : ord[i][1] <= g /\ g <= ord[i][2]
    IN  TotalLength(SubSeq(ord, 1, k - 1)) + (IF st = "+" THEN g - ord[k][1] ELSE ord[k][2] - g)

\* The genomic position of a transcript index.
GenomicPosition(ex, st, i) ==
    CHOOSE g \in ex[1][1]..ex[Len(ex)][2] : InExon(ex, g) /\ TranscriptIndex(ex, st, g) = i

\* The known uORFs of a transcript: one row per ATG upstream of the main start,
\* annotated as the discovery routine annotates a start codon.
RECURSIVE KnownUORFRows(_, _, _, _, _)
KnownUORFRows(seq, m, st, ex, u) ==
    IF u > m - 3 THEN <<>>
    ELSE (IF SubSeq(seq, u + 1, u + 3) = ATG
          THEN <<[c8 |-> m, anno |-> uStart_gain(u + 2, seq, m, st, ex, "chr1")]>>
          ELSE <<>>)
         \o KnownUORFRows(seq, m, st, ex, u + 1)

\* A 5'UTR row of a transcript whose sequence is seq and whose main start codon
\* is at index m: the exons cover the sequence base by base, the span is open
\* on both sides and ends on the first base of the main start codon.
UTRRow(seq, m, st, ex) ==
    LET gm == GenomicPosition(ex, st, m)
        ctx == PySlice(seq, m - 4, m + 5)
    IN  [chrom |-> "chr1",
         start |-> IF st = "+" THEN ex[1][1] - 1 ELSE gm,
         end |-> IF st = "+" THEN gm ELSE ex[Len(ex)][2] + 1,
         strand |-> st,
         kozak |-> ctx,
         kozak_strength |-> calculate_kozak_strength(ctx),
         wtSEQ |-> seq,
         exons |-> ex,
         n_uorfs |-> Len(KnownUORFRows(seq, m, st, ex, 0))]

pvIdle ==
    /\ UTR = None /\ transcript_uorfs = None /\ variant = None
    /\ relativePosition = None /\ mutatedSequence = None /\ startPOS = None
    /\ CSQ = None /\ uORFAnnotations = None /\ nextUORF = None /\ result = None

kzIdle == kozak_sequence = None /\ strength = None

cmIdle ==
    /\ exons = None /\ strand = None /\ position = None
    /\ distance = None /\ genomic = None

\* No conservation-score file is installed: every lookup raises OSError.
NoTabix == [track \in Tracks |-> [available |-> FALSE, scores |-> [r \in 0..2 |-> None]]]

bvIdle == input_variants = None /\ nextVariant = None /\ output_rows = None

mnIdle == files = None /\ splice = None /\ processed = None /\ exit_status = None

spIdle == transcript_INTRONs = None

flIdle == bed_lines = None /\ bed_by_chrom = None

(***************************************************************************)
(* Specification of process_variant on one (variant, UTR) pair             *)
(***************************************************************************)

MaxRefLen == 2
MaxAltLen == 2

\* Reference-allele lengths: every length up to MaxRefLen, and one long allele.
LongRefLens == {5}
RefLens == (1..MaxRefLen) \cup LongRefLens

\* Alternate alleles: every string up to MaxAltLen, two long alleles that carry
\* a start codon, and the two spellings of the empty allele.
LongAlts == {<<"A", "T", "G", "C", "C">>, <<"G", "C", "C", "A", "T", "G", "G">>}
AltAlleles ==
    UNION {[1..n -> Bases] : n \in 0..MaxAltLen} \cup LongAlts \cup {<<"<DEL>">>, <<".">>}

\* CCACATGTAATGACGCCATGGCG (a Non-Overlapping uORF with a second in-frame stop before the main start).
T1 == [seq |-> <<"C", "C", "A", "C", "A", "T", "G", "T", "A", "A", "T", "G", "A", "C", "G", "C", "C", "A", "T", "G", "G", "C", "G">>,
       m |-> 17]

\* CACCATGTACCTATGACC (an Overlapping uORF, a Weak main Kozak context and a short coding tail).
T2 == [seq |-> <<"C", "A", "C", "C", "A", "T", "G", "T", "A", "C", "C", "T", "A", "T", "G", "A", "C", "C">>,
       m |-> 12]

\* CCGCATGTGGGCTATGGCCTAA (an N-terminal extension uORF).
T3 == [seq |-> <<"C", "C", "G", "C", "A", "T", "G", "T", "G", "G", "G", "C", "T", "A", "T", "G", "G", "C", "C", "T", "A", "A">>,
       m |-> 13]

\* CAGCCTGTAACACGCCATGCCT (no uORF, and AG / TG / ACG motifs from which an edit can make an ATG).
T4 == [seq |-> <<"C", "A", "G", "C", "C", "T", "G", "T", "A", "A", "C", "A", "C", "G", "C", "C", "A", "T", "G", "C", "C", "T">>,
       m |-> 16]

\* ACGATGCCTTGAGCCCCATGACC (a Non-Overlapping uORF three bases from the 5' end, whose
\* Kozak context is incomplete and whose next in-frame stop is the TGA across the
\* main start codon, and ACG at the 5' end, which C > T turns into ATG).
T5 == [seq |-> <<"A", "C", "G", "A", "T", "G", "C", "C", "T", "T", "G", "A", "G", "C", "C", "C", "C", "A", "T", "G", "A", "C", "C">>,
       m |-> 17]

\* CACCATGGCCTAGTGATGGCC (a Non-Overlapping uORF whose stop codon ends two bases
\* before the main start codon, followed in frame by the TGA across its first base).
T6 == [seq |-> <<"C", "A", "C", "C", "A", "T", "G", "G", "C", "C", "T", "A", "G", "T", "G", "A", "T", "G", "G", "C", "C">>,
       m |-> 15]

\* Exon layouts of a transcript of n bases: one exon, or two exons around an
\* intron of two bases.
OneExon(n) == <<<<3, n + 2>>>>
TwoExons(n) == <<<<3, 2 + (n \div 3)>>, <<5 + (n \div 3), n + 4>>>>

\* The transcripts of the reference table, each with its exon layout, on both
\* strands.
Transcripts ==
    {[t |-> t, ex |-> OneExon(Len(t.seq))] : t \in {T1, T2, T3, T4, T5, T6}} \cup
    {[t |-> t, ex |-> TwoExons(Len(t.seq))] : t \in {T1, T4}}

Complement(b) == BASE_PAIRING(b)

\* The reference allele the genome shows at POS .. POS + n - 1 (plus strand).
GenomicREF(utr, pos, n) ==
    [k \in 1..n |->
        LET g == pos + k - 1
        IN  IF ~InExon(utr.exons, g) THEN "N"
            ELSE LET b == utr.wtSEQ[TranscriptIndex(utr.exons, utr.strand, g) + 1]
                 IN  IF utr.strand = "+" THEN b ELSE Complement(b)]

\* Candidate positions: from two bases before the first exon to two bases after
\* the last one.
AllPositions(utr) == 1..(utr.exons[Len(utr.exons)][2] + 2)

InitFrom(transcripts, refLens, alts) ==
    /\ pc = "start"
    /\ tabix = NoTabix
    /\ \E tr \in transcripts, st \in {"+", "-"} :
            /\ UTR = UTRRow(tr.t.seq, tr.t.m, st, tr.ex)
            /\ transcript_uorfs = KnownUORFRows(tr.t.seq, tr.t.m, st, tr.ex, 0)
    /\ \E pos \in AllPositions(UTR), n \in refLens, alt \in alts :
         variant = [chrom |-> "1", POS |-> pos, REF |-> GenomicREF(UTR, pos, n), ALT |-> alt]
    /\ relativePosition = None
    /\ mutatedSequence = None
    /\ startPOS = None
    /\ CSQ = None
    /\ uORFAnnotations = None
    /\ nextUORF = None
    /\ result = None
    /\ cmIdle
    /\ kzIdle
    /\ bvIdle
    /\ spIdle
    /\ mnIdle
    /\ flIdle

Init == InitFrom(Transcripts, RefLens, AltAlleles)

Spec == Init /\ [][Next]_vars

(***************************************************************************)
(* Properties of process_variant                                           *)
(***************************************************************************)

\* Lines 172-177 have run: the edit is applied and the main start is shifted.
EditApplied == pc \in {"mKozak", "uStart_gain", "uORFs", "emit", "done", "dropped"}

\* The indices of the emitted rows that carry a tag.
RowsTagged(tag) ==
    IF pc = "done" THEN {i \in 1..Len(result) : result[i][1] = tag} ELSE {}

\* C2: once process_variant has accepted a variant and built the mutated
\* sequence, its length is len(wtSEQ) + len(ALT) - len(REF).
C2_MutatedLength ==
    EditApplied => Len(mutatedSequence) = Len(wtSEQ) + LenALT - LenREF

Classified == {"Weak", "Adequate", "Strong"}

\* The order Weak < Adequate < Strong.
Ordinal(s) ==
    CASE s = "Weak" -> 1
      [] s = "Adequate" -> 2
      [] s = "Strong" -> 3
      [] OTHER -> 0

\* <<strength classified for the mutated main context, stored strength>>
MainKozakPair ==
    <<calculate_kozak_strength(PySlice(mutatedSequence, startPOS - 4, startPOS + 5)),
      UTR.kozak_strength>>

\* <<strength classified for the mutated context of the uORF of row i, stored strength>>
UKozakPair(i) ==
    LET uORF == CHOOSE u \in {transcript_uorfs[k] : k \in 1..Len(transcript_uorfs)} :
                    u.anno = result[i][3]
        sh == ShiftedUORF(uORF, relativePosition, LenREF, LenALT)
    IN  <<calculate_kozak_strength(PySlice(mutatedSequence, sh.uSTART - 4, sh.uSTART + 5)),
          uORF.anno[A_STRENGTH]>>

\* The label is 'increased' exactly when the mutated strength is the greater one.
FollowsOrder(dir, pair) ==
    /\ pair[1] \in Classified /\ pair[2] \in Classified
    /\ dir \in {"increased", "decreased"}
    /\ dir = "increased" <=> Ordinal(pair[1]) > Ordinal(pair[2])
    /\ dir = "decreased" <=> Ordinal(pair[1]) < Ordinal(pair[2])

\* The label is 'increased' exactly when the mutated strength is the lower one.
InvertsOrder(dir, pair) ==
    /\ pair[1] \in Classified /\ pair[2] \in Classified
    /\ dir \in {"increased", "decreased"}
    /\ dir = "increased" <=> Ordinal(pair[1]) < Ordinal(pair[2])
    /\ dir = "decreased" <=> Ordinal(pair[1]) > Ordinal(pair[2])

\* C4 (as claimed): on every mKozak row and on every uKozak row the direction is
\* 'increased' exactly when the strength of the mutated context is greater than
\* the stored strength, and 'decreased' exactly when it is lower.
C4_OrdinalMonotonicity ==
    /\ \A i \in RowsTagged("mKozak") : FollowsOrder(result[i][2], MainKozakPair)
    /\ \A i \in RowsTagged("uKozak") : FollowsOrder(result[i][2], UKozakPair(i))

\* C4 (amended): the direction is the effect on translation of the main ORF: an
\* mKozak row follows the order of the strengths, a uKozak row inverts it
\* ('increased' exactly when the uORF context became weaker).
C4_TranslationDirection ==
    /\ \A i \in RowsTagged("mKozak") : FollowsOrder(result[i][2], MainKozakPair)
    /\ \A i \in RowsTagged("uKozak") : InvertsOrder(result[i][2], UKozakPair(i))

\* A uKozak row whose uORF context became weaker, next to an mKozak row of the same call
\* or alone.
C4_Witness ==
    \E i \in RowsTagged("uKozak") :
        /\ result[i][2] = "increased"
        /\ Ordinal(UKozakPair(i)[1]) < Ordinal(UKozakPair(i)[2])

\* The relative start of the new uORF of an annotation row.
NewStart(anno) == startPOS - anno[A_DIST]

IsStop(seq, c) == PySlice(seq, c, c + 3) \in STOP_CODONS

\* The first index after the start codon, in frame with start, that holds a stop
\* codon or lies at or after the end of the sequence.
FrameEnd(seq, start) ==
    CHOOSE c \in (start + 3)..(Len(seq) + 2) :
        /\ (c - start) % 3 = 0
        /\ IsStop(seq, c) \/ c >= Len(seq)
        /\ \A d \in (start + 3)..(c - 1) :
              (d - start) % 3 = 0 => ~IsStop(seq, d) /\ d < Len(seq)

\* C5: the length of a new uORF that is not an N-terminal extension is
\* stop_end - start + 1 and a multiple of 3, also when the frame runs to the end
\* of the sequence without a stop codon.
C5_LengthMultipleOfThree ==
    \A i \in RowsTagged("uStart_gain") :
        LET anno == result[i][3]
            start == NewStart(anno)
            stop_end == FrameEnd(mutatedSequence, start) + 2
        IN  anno[A_TYPE] # "N-terminal extension" =>
                /\ anno[A_LENGTH] = stop_end - start + 1
                /\ anno[A_LENGTH] % 3 = 0

\* A new uORF that is not an N-terminal extension and whose frame meets no stop codon.
C5_Witness ==
    \E i \in RowsTagged("uStart_gain") :
        /\ result[i][3][A_TYPE] # "N-terminal extension"
        /\ result[i][3][A_STOP_CODON] \notin STOP_CODONS

\* C7: an N-terminal extension reports the length mainStart - newStart, which is
\* positive and a multiple of 3; every other type reports the length from the new
\* start through the last base of its stop codon.
C7_EffectiveLength ==
    \A i \in RowsTagged("uStart_gain") :
        LET anno == result[i][3]
            start == NewStart(anno)
            stop == FrameEnd(mutatedSequence, start)
        IN  IF anno[A_TYPE] = "N-terminal extension"
            THEN /\ anno[A_LENGTH] = startPOS - start
                 /\ anno[A_LENGTH] > 0
                 /\ anno[A_LENGTH] % 3 = 0
            ELSE IsStop(mutatedSequence, stop) => anno[A_LENGTH] = stop + 2 - start + 1

\* C8: the type is Non-Overlapping iff the last base of the new stop codon lies
\* before mainStart, N-terminal extension iff the new start lies upstream of
\* mainStart, in frame with it, with no in-frame stop before it, and Overlapping
\* otherwise; a start at or after mainStart is never an N-terminal extension.
C8_TypeOfNewUORF ==
    \A i \in RowsTagged("uStart_gain") :
        LET anno == result[i][3]
            start == NewStart(anno)
            stop == FrameEnd(mutatedSequence, start)
        IN  anno[A_TYPE] =
                IF stop + 2 < startPOS THEN "Non-Overlapping"
                ELSE IF start < startPOS /\ (startPOS - start) % 3 = 0 /\ stop >= startPOS
                THEN "N-terminal extension"
                ELSE "Overlapping"

\* Every base of the reference allele lies upstream of the main start codon.
EditUpstream ==
    \A g \in variant.POS..(variant.POS + LenREF - 1) :
        TranscriptIndex(UTR.exons, UTR.strand, g) < startPOS - LenALT + LenREF

\* C9: a pair whose shifted main start no longer reads ATG emits no row, and an
\* edit that lies entirely upstream of the main start codon is never dropped.
C9_MStartLossFilter ==
    /\ pc = "dropped" => result = <<>>
    /\ pc = "done" /\ result # <<>> => PySlice(mutatedSequence, startPOS, startPOS + 3) = ATG
    /\ pc = "dropped" => ~EditUpstream

\* C10: an mKozak row implies a 9-nt context that differs from the stored one at
\* a diagnostic position and classifies differently; an unchanged context gives
\* no mKozak row; a Weak context turned Strong gives mKozak/'increased'; there is
\* at most one mKozak row.
C10_MainKozak ==
    pc = "done" =>
        LET newKOZAK == PySlice(mutatedSequence, startPOS - 4, startPOS + 5)
            rows == RowsTagged("mKozak")
        IN  /\ Cardinality(rows) <= 1
            /\ rows # {} =>
                  /\ Len(newKOZAK) = 9 /\ Len(UTR.kozak) = 9
                  /\ \E k \in {2, 4, 8} : newKOZAK[k] # UTR.kozak[k]
                  /\ MainKozakPair[1] # MainKozakPair[2]
            /\ newKOZAK = UTR.kozak => rows = {}
            /\ Len(newKOZAK) = 9 /\ MainKozakPair = <<"Strong", "Weak">> =>
                  \E i \in rows : result[i][2] = "increased"

\* A stored Weak context that the edit turns Strong, reported as mKozak/'increased'.
C10_Witness ==
    /\ pc = "done"
    /\ MainKozakPair = <<"Strong", "Weak">>
    /\ \E i \in RowsTagged("mKozak") : result[i][2] = "increased"

NonNegative(n) == IF n < 0 THEN 0 ELSE n

\* The bases of seq from two before the edit to two after an allele of length
\* len, cut at the 5' end of the sequence.
EditWindow(seq, len) ==
    PySlice(seq, NonNegative(relativePosition - 2), relativePosition + len + 2)

\* The mutated sequence has an ATG in the window around the edit and the
\* wild-type sequence has none in the corresponding window.
NewATGInWindow ==
    /\ Contains(EditWindow(mutatedSequence, LenALT), ATG)
    /\ ~Contains(EditWindow(wtSEQ, LenREF), ATG)

\* C11: uStart_gain is emitted exactly when the window around the edit holds an
\* ATG in the mutated sequence and none in the wild-type sequence, at every edit
\* position including 0 and 1; its direction is 'N-terminal extension' iff the
\* new uORF is of that type and 'decreased' otherwise; at most one such row.
C11_UStartGainEmission ==
    pc = "done" =>
        LET rows == RowsTagged("uStart_gain")
        IN  /\ rows # {} <=> NewATGInWindow
            /\ Cardinality(rows) <= 1
            /\ \A i \in rows :
                  result[i][2] = IF result[i][3][A_TYPE] = "N-terminal extension"
                                 THEN "N-terminal extension" ELSE "decreased"

\* The known uORFs of the transcript under evaluation.
KnownUORFs == {transcript_uorfs[k] : k \in 1..Len(transcript_uorfs)}

StopTags ==
    {"uStop_gain to Non-Overlapping", "uStop_gain shorter Non-Overlapping",
     "uStop_loss to N-terminal extension", "uStop_loss to Overlapping",
     "uStop_loss longer Non-Overlapping"}

\* The indices of the emitted rows about a known uORF that carry one of the tags.
RowsOf(uORF, tags) ==
    IF pc = "done"
    THEN {i \in 1..Len(result) :
            /\ result[i][1] \in tags
            /\ result[i][3][1] = uORF.anno[1]
            /\ result[i][3][A_DIST] = uORF.anno[A_DIST]}
    ELSE {}

\* The start of a known uORF in the mutated sequence, as the loop shifts it.
ShiftedStart(uORF) == ShiftedUORF(uORF, relativePosition, LenREF, LenALT).uSTART

\* The stop of a known uORF (start + length - 3), as the loop shifts it.
ShiftedStop(uORF) == ShiftedUORF(uORF, relativePosition, LenREF, LenALT).uSTOP

\* The window [start - 6, stop + 2] of the uORF contains the variant.
VariantInWindow(uORF) ==
    /\ ShiftedStart(uORF) - 6 <= relativePosition
    /\ relativePosition <= ShiftedStop(uORF) + 2

\* The codon at the shifted start is neither the stored start codon nor ATG.
StartCodonLost(uORF) ==
    LET c == PySlice(mutatedSequence, ShiftedStart(uORF), ShiftedStart(uORF) + 3)
    IN  c # uORF.anno[A_START_CODON] /\ c # ATG

\* C12: for a known uORF whose window contains the variant, a lost start codon
\* gives exactly one uStart_loss/'increased' row and no uStop_gain, uStop_loss or
\* uKozak row for that uORF; a kept start codon gives no uStart_loss row.
C12_UStartLoss ==
    pc = "done" =>
        \A uORF \in KnownUORFs :
            VariantInWindow(uORF) =>
                IF StartCodonLost(uORF)
                THEN /\ Cardinality(RowsOf(uORF, {"uStart_loss"})) = 1
                     /\ \A i \in RowsOf(uORF, {"uStart_loss"}) : result[i][2] = "increased"
                     /\ RowsOf(uORF, StopTags \cup {"uKozak"}) = {}
                ELSE RowsOf(uORF, {"uStart_loss"}) = {}

\* A start codon hit by the edit itself (minus strand, the edit begins inside the
\* codon) and reported lost once, where the frame read from the start ends
\* elsewhere than the stored stop, so that a stop transition is being withheld.
C12_Witness ==
    /\ pc = "done"
    /\ UTR.strand = "-"
    /\ \E uORF \in KnownUORFs :
          /\ VariantInWindow(uORF)
          /\ StartCodonLost(uORF)
          /\ Cardinality(RowsOf(uORF, {"uStart_loss"})) = 1
          /\ relativePosition - ShiftedStart(uORF) \in 0..2
          /\ ShiftedStart(uORF) = uORF.c8 - uORF.anno[A_DIST]
          /\ ScanStop(mutatedSequence, ShiftedStart(uORF)) # ShiftedStop(uORF)

\* The first in-frame stop codon read from the shifted start of a known uORF in
\* the mutated sequence (or the first in-frame index past the end).
NewStop(uORF) == FrameEnd(mutatedSequence, ShiftedStart(uORF))

\* The known uORF is analysed for its stop: the variant is in its window and its
\* start codon is kept.
StopAnalysed(uORF) == VariantInWindow(uORF) /\ ~StartCodonLost(uORF)

UStopGainTags == {"uStop_gain to Non-Overlapping", "uStop_gain shorter Non-Overlapping"}

\* The uStop_gain row of the transition table for a stored type.
UStopGainRow(type) ==
    IF type = "Overlapping" THEN <<"uStop_gain to Non-Overlapping", "increased">>
    ELSE IF type = "N-terminal extension" THEN <<"uStop_gain to Non-Overlapping", "decreased">>
    ELSE <<"uStop_gain shorter Non-Overlapping", "increased">>

\* C13: when the new first in-frame stop of a known uORF lies earlier than the
\* old stop and entirely before mainStart, exactly the uStop_gain row of the
\* table for the stored type is emitted; otherwise no uStop_gain row is emitted.
C13_UStopGainTable ==
    pc = "done" =>
        \A uORF \in KnownUORFs :
            LET rows == RowsOf(uORF, UStopGainTags)
            IN  IF /\ StopAnalysed(uORF)
                   /\ NewStop(uORF) < ShiftedStop(uORF)
                   /\ NewStop(uORF) + 2 < startPOS
                THEN /\ Cardinality(rows) = 1
                     /\ \A i \in rows :
                           <<result[i][1], result[i][2]>> = UStopGainRow(uORF.anno[A_TYPE])
                ELSE rows = {}

\* An N-terminal extension uORF that gains a stop codon before the main start.
C13_Witness ==
    /\ pc = "done"
    /\ \E uORF \in KnownUORFs :
          /\ uORF.anno[A_TYPE] = "N-terminal extension"
          /\ StopAnalysed(uORF)
          /\ IsStop(mutatedSequence, NewStop(uORF))
          /\ NewStop(uORF) + 2 < startPOS
          /\ \E i \in RowsOf(uORF, UStopGainTags) : result[i][2] = "decreased"

UStopLossTags ==
    {"uStop_loss to N-terminal extension", "uStop_loss to Overlapping",
     "uStop_loss longer Non-Overlapping"}

\* The uStop_loss row of the transition table for a new stop at index codon.
UStopLossRow(codon) ==
    IF codon > startPOS /\ (codon - startPOS) % 3 = 0
    THEN <<"uStop_loss to N-terminal extension", "N-terminal extension">>
    ELSE IF codon > startPOS
    THEN <<"uStop_loss to Overlapping", "decreased">>
    ELSE <<"uStop_loss longer Non-Overlapping", "decreased">>

UContextStrength(uORF) ==
    LET ctx == PySlice(mutatedSequence, ShiftedStart(uORF) - 4, ShiftedStart(uORF) + 5)
    IN  IF Len(ctx) # 9 THEN "" ELSE calculate_kozak_strength(ctx)

\* The variant is at start - 1, start - 3 or start + 3 of the shifted uORF start.
AtUKozakPosition(uORF) ==
    relativePosition \in
        {ShiftedStart(uORF) - 1, ShiftedStart(uORF) - 3, ShiftedStart(uORF) + 3}

\* C15: a uKozak row is emitted for a known uORF only when the variant is at
\* start - 1, start - 3 or start + 3 of its start and the strength classified for
\* the mutated context differs from the stored one; an Unknown recomputed or
\* stored strength gives no uKozak row, and no error is raised.
C15_UKozak ==
    /\ pc # "error"
    /\ pc = "done" =>
          \A uORF \in KnownUORFs :
              LET rows == RowsOf(uORF, {"uKozak"})
              IN  /\ rows # {} =>
                        /\ AtUKozakPosition(uORF)
                        /\ UContextStrength(uORF) \in Classified
                        /\ uORF.anno[A_STRENGTH] \in Classified
                        /\ UContextStrength(uORF) # uORF.anno[A_STRENGTH]
                  /\ UContextStrength(uORF) = "" \/ uORF.anno[A_STRENGTH] = "" => rows = {}

\* A variant at a Kozak position of a uORF that the edit has moved closer than 4
\* bases to the 5' end: the stored strength is known, the recomputed one is
\* Unknown, the uKozak test is reached and no row is emitted.
C15_Witness ==
    /\ pc = "done"
    /\ \E uORF \in KnownUORFs :
          /\ StopAnalysed(uORF)
          /\ AtUKozakPosition(uORF)
          /\ ShiftedStart(uORF) < 4
          /\ UContextStrength(uORF) = ""
          /\ uORF.anno[A_STRENGTH] \in Classified
          /\ RowsOf(uORF, StopTags) = {}
          /\ RowsOf(uORF, {"uKozak"}) = {}

\* The first transcript index (0-based) of the bases that the reference allele
\* names: the bases at genomic POS .. POS + len(REF) - 1 lie in one exon, and on
\* the - strand the last of them comes first in the transcript.
EditStart ==
    IF UTR.strand = "+"
    THEN TranscriptIndex(UTR.exons, UTR.strand, variant.POS)
    ELSE TranscriptIndex(UTR.exons, UTR.strand, variant.POS + LenREF - 1)

\* The stored relative start and stop of a known uORF.
StoredStart(uORF) == uORF.c8 - uORF.anno[A_DIST]
StoredStop(uORF) == StoredStart(uORF) + uORF.anno[A_LENGTH] - 3

\* The variant is an insertion or a deletion whose reference bases all lie
\* before the start of the uORF.
IndelBefore(uORF) ==
    /\ LenREF # LenALT
    /\ EditStart + LenREF - 1 < StoredStart(uORF)

\* C21: for an insertion or deletion that lies entirely before a known uORF's
\* start, the start and stop used for the analysis are the stored ones plus
\* len(ALT) - len(REF), the codon at the shifted start of the mutated sequence
\* is the wild-type start codon, and no uStart_loss row is emitted for the uORF.
C21_IndelShift ==
    pc \in {"uORFs", "emit", "done"} =>
        \A uORF \in KnownUORFs :
            IndelBefore(uORF) =>
                /\ ShiftedStart(uORF) = StoredStart(uORF) + LenALT - LenREF
                /\ ShiftedStop(uORF) = StoredStop(uORF) + LenALT - LenREF
                /\ PySlice(mutatedSequence, ShiftedStart(uORF), ShiftedStart(uORF) + 3)
                      = PySlice(wtSEQ, StoredStart(uORF), StoredStart(uORF) + 3)
                /\ RowsOf(uORF, {"uStart_loss"}) = {}

\* The wild-type sequence with the allele in the place of the len(REF) bases
\* that the reference allele names.
EditedAtREF ==
    SubSeq(wtSEQ, 1, EditStart)
    \o (IF UTR.strand = "+" THEN ALT ELSE rev_seq(ALT))
    \o SubSeq(wtSEQ, EditStart + LenREF + 1, Len(wtSEQ))

\* C23: for every accepted variant, on both strands and for every length of
\* the reference allele, the len(REF) characters that process_variant replaces
\* are the transcript positions of genomic POS .. POS + len(REF) - 1, so that
\* every base of mutatedSequence outside the inserted allele is the wild-type
\* base of an unaffected position.
C23_EditLocation ==
    EditApplied =>
        /\ relativePosition = EditStart
        /\ mutatedSequence = EditedAtREF

\* The relative position computed for the variant falls outside the stored
\* wild-type sequence, or the shifted main start falls outside the mutated
\* sequence.
OutOfRange ==
    \/ relativePosition + LenREF > Len(wtSEQ)
    \/ startPOS < 0
    \/ startPOS + 3 > Len(mutatedSequence)

\* C26: when the relative position computed for the variant falls outside the
\* stored wild-type sequence, or the shifted main start falls outside the
\* mutated sequence, process_variant raises no exception and emits no
\* consequence row for the (variant, UTR) pair.
C26_OutOfRange ==
    EditApplied /\ OutOfRange =>
        /\ pc # "error"
        /\ pc = "done" => result = <<>>

\* C28: a known uORF that gets the row 'uStop_loss longer Non-Overlapping' has
\* its whole new stop codon before the main start codon (newStop + 2 <
\* mainStart): a new stop codon that straddles the main start is never labelled
\* Non-Overlapping.
C28_LongerNonOverlapping ==
    pc = "done" =>
        \A uORF \in KnownUORFs :
            RowsOf(uORF, {"uStop_loss longer Non-Overlapping"}) # {} =>
                NewStop(uORF) + 2 < startPOS

CSQVocabulary ==
    {"mKozak", "uStart_gain", "uStart_loss", "uStop_gain to Non-Overlapping",
     "uStop_gain shorter Non-Overlapping", "uStop_gain to N-terminal extension",
     "uStop_loss to N-terminal extension", "uStop_loss to Overlapping",
     "uStop_loss longer Non-Overlapping", "uKozak"}

DirectionLabels == {"increased", "decreased", "N-terminal extension"}

\* C30: at every point of the evaluation of a (variant, UTR) pair the list of
\* CSQ tags, the list of direction labels and the list of uORF annotation rows
\* have equal length, every tag is in the CSQ vocabulary, every direction is
\* 'increased', 'decreased' or 'N-terminal extension', every annotation row has
\* 15 fields, and each output row pairs a tag with its own direction and
\* annotation.
C30_AccumulatorAlignment ==
    pc # "start" =>
        /\ Len(CSQ[1]) = Len(CSQ[2])
        /\ Len(CSQ[1]) = Len(uORFAnnotations)
        /\ \A i \in 1..Len(CSQ[1]) : CSQ[1][i] \in CSQVocabulary
        /\ \A i \in 1..Len(CSQ[2]) : CSQ[2][i] \in DirectionLabels
        /\ \A i \in 1..Len(uORFAnnotations) : Len(uORFAnnotations[i]) = 15
        /\ pc = "done" =>
              /\ Len(result) = Len(CSQ[1])
              /\ \A i \in 1..Len(result) :
                    result[i] = <<CSQ[1][i], CSQ[2][i], uORFAnnotations[i]>>

\* A pair that gives two rows with different tags and different directions.
C30_Witness ==
    /\ pc = "done"
    /\ \E i, j \in 1..Len(result) :
          /\ i < j
          /\ result[i][1] # result[j][1]
          /\ result[i][2] # result[j][2]

(***************************************************************************)
(* Specification of process_variant on the transcripts of the worked        *)
(* scenarios: a main start near index 100 and substitutions or insertions  *)
(* after one reference base.                                               *)
(***************************************************************************)

\* A sequence of n bases, C everywhere except for the motifs placed at the
\* 0-based indices of at.
Motifs(n, at) ==
    [i \in 1..n |->
        IF \E mo \in at : mo[1] < i /\ i <= mo[1] + Len(mo[2])
        THEN LET mo == CHOOSE mo \in at : mo[1] < i /\ i <= mo[1] + Len(mo[2])
             IN  mo[2][i - mo[1]]
        ELSE "C"]

\* AG at 10 (a T inserted after the A makes ATG at 10), TAA at 39, a known
\* Non-Overlapping uORF at 59..67, the main start at 99.
TB == [seq |-> Motifs(106, {<<10, <<"A", "G">>>>, <<39, <<"T", "A", "A">>>>,
                            <<59, ATG>>, <<65, <<"T", "A", "A">>>>, <<99, ATG>>}),
       m |-> 99]

\* A known Non-Overlapping uORF at 20..28, ACG at 40 (C > T makes ATG at 40), no
\* in-frame stop up to the main start at 100, TAA at 106.
TC == [seq |-> Motifs(109, {<<20, ATG>>, <<26, <<"T", "A", "A">>>>,
                            <<40, <<"A", "C", "G">>>>, <<100, ATG>>,
                            <<106, <<"T", "A", "A">>>>}),
       m |-> 100]

ScenarioTranscripts == {[t |-> t, ex |-> OneExon(Len(t.seq))] : t \in {TB, TC}}

ScenarioAlts == UNION {[1..n -> Bases] : n \in 1..MaxAltLen}

InitScenario == InitFrom(ScenarioTranscripts, {1}, ScenarioAlts)

SpecScenario == InitScenario /\ [][Next]_vars

\* An insertion on the + strand has created an ATG at relative position 10 whose
\* first in-frame stop codon is at 40, and the shifted main start is at 100.
ScenarioB ==
    /\ pc = "done"
    /\ UTR.strand = "+"
    /\ LenREF < LenALT
    /\ relativePosition <= 12 /\ relativePosition + LenALT > 10
    /\ PySlice(mutatedSequence, 10, 13) = ATG
    /\ PySlice(wtSEQ, 10, 13) # ATG
    /\ FrameEnd(mutatedSequence, 10) = 40
    /\ IsStop(mutatedSequence, 40)
    /\ startPOS = 100

\* A uStart_gain row for the new start at 10: Non-Overlapping, 'decreased', of
\* the given length.
ScenarioBRow(length) ==
    \E i \in RowsTagged("uStart_gain") :
        /\ result[i][2] = "decreased"
        /\ NewStart(result[i][3]) = 10
        /\ result[i][3][A_TYPE] = "Non-Overlapping"
        /\ result[i][3][A_LENGTH] = length

\* C6 (as claimed): Scenario B emits uStart_gain, Non-Overlapping, 'decreased',
\* with uORF length 31.
C6_ScenarioB_Length31 == ScenarioB => ScenarioBRow(31)

\* C6 (amended): Scenario B emits uStart_gain, Non-Overlapping, 'decreased',
\* with uORF length 33, the bases 10..42 through the last base of the stop codon.
C6_ScenarioB_Length33 == ScenarioB => ScenarioBRow(33)

\* Scenario B has run and its row is emitted.
C6_Witness == ScenarioB /\ ScenarioBRow(33)

(***************************************************************************)
(* Conservation scores of a new uORF: process_variant with score files     *)
(***************************************************************************)

\* An exon layout of a transcript of n bases whose first exon (in genomic
\* order) has k bases, around an intron of two bases.
SplitAt(n, k) == <<<<3, 2 + k>>, <<5 + k, n + 4>>>>

\* T1 in one exon and with an exon junction ten and thirteen bases from the
\* genomic start: on the + strand the second layout puts the junction between
\* the A and the C of ACG, on the - strand the first one does.
ScoreTranscripts ==
    {[t |-> T1, ex |-> ex] : ex \in {OneExon(Len(T1.seq)), SplitAt(Len(T1.seq), 10),
                                     SplitAt(Len(T1.seq), 13)}}

\* The last column of a record of each track: absent, empty, zero, a positive
\* number and text that is not a number in one track, absent and a negative
\* number in the other.
PhyloPValues == {None, "", "0", "3", "x"}
PhastConsValues == {None, "-6"}

\* The files of a track: one that cannot be opened or read, and the readable
\* ones.
TabixFiles(values) ==
    {[available |-> FALSE, scores |-> [r \in 0..2 |-> None]]} \cup
    {[available |-> TRUE, scores |-> f] : f \in [0..2 -> values]}

\* The C > T transitions of the transcript (G > A on the genome for the -
\* strand), at every exonic position.
Transitions(utr) ==
    {[chrom |-> "1", POS |-> g, REF |-> GenomicREF(utr, g, 1),
      ALT |-> <<IF utr.strand = "+" THEN "T" ELSE Complement("T")>>] :
        g \in {p \in AllPositions(utr) :
                 /\ InExon(utr.exons, p)
                 /\ utr.wtSEQ[TranscriptIndex(utr.exons, utr.strand, p) + 1] = "C"}}

InitScores ==
    /\ pc = "start"
    /\ \E phyloP \in TabixFiles(PhyloPValues), phastCons \in TabixFiles(PhastConsValues) :
         tabix = [track \in Tracks |-> IF track = "phyloP" THEN phyloP ELSE phastCons]
    /\ \E tr \in ScoreTranscripts, st \in {"+", "-"} :
            /\ UTR = UTRRow(tr.t.seq, tr.t.m, st, tr.ex)
            /\ transcript_uorfs = KnownUORFRows(tr.t.seq, tr.t.m, st, tr.ex, 0)
    /\ variant \in Transitions(UTR)
    /\ relativePosition = None
    /\ mutatedSequence = None
    /\ startPOS = None
    /\ CSQ = None
    /\ uORFAnnotations = None
    /\ nextUORF = None
    /\ result = None
    /\ cmIdle
    /\ kzIdle
    /\ bvIdle
    /\ spIdle
    /\ mnIdle
    /\ flIdle

SpecScores == InitScores /\ [][Next]_vars

\* The genomic positions of the three bases of the start codon of the new uORF
\* of an annotation row.
StartCodonPositions(anno) ==
    [j \in 1..3 |-> GenomicPosition(UTR.exons, UTR.strand, startPOS - anno[A_DIST] + j - 1)]

\* The file of the track holds a record with a numeric last column at pos.
PresentNumeric(track, pos) ==
    /\ tabix[track].available
    /\ tabix[track].scores[pos % 3] \in {"0", "3", "-6"}

\* The mean over the positions of the start codon that have a present numeric
\* value; NA when there is none.
MeanOverStartCodon(track, anno) ==
    LET at == StartCodonPositions(anno)
        answered == {j \in 1..3 : PresentNumeric(track, at[j])}
    IN  <<SumOf([j \in 1..3 |-> IF j \in answered
                                THEN FloatOf[tabix[track].scores[at[j] % 3]] ELSE 0]),
          Cardinality(answered)>>

\* C20: each of mean phyloP and mean phastCons of a new uORF is the average of
\* exactly those of the three start-codon positions that have a present numeric
\* value, zero included; it is 'NA' iff none has one; a file that cannot be
\* opened or read gives no value and the evaluation does not raise.
C20_ConservationScores ==
    /\ pc # "error"
    /\ pc = "done" =>
          \A i \in RowsTagged("uStart_gain") :
              /\ result[i][3][A_PHYLOP] = MeanOverStartCodon("phyloP", result[i][3])
              /\ result[i][3][A_PHASTCONS] = MeanOverStartCodon("phastCons", result[i][3])

(***************************************************************************)
(* Specification of process_variants: the loop over the input rows, with   *)
(* process_variant run on each row it admits.                              *)
(***************************************************************************)

MaxBatch == 2

DigitChars == <<"0", "1", "2", "3", "4", "5", "6", "7", "8", "9">>

\* The decimal text of a number below 100.
DecimalText(n) ==
    IF n < 10 THEN <<DigitChars[n + 1]>>
    ELSE <<DigitChars[(n \div 10) + 1], DigitChars[(n % 10) + 1]>>

DigitValue(c) == CHOOSE d \in 0..9 : DigitChars[d + 1] = c

IsDecimal(text) ==
    text # <<>> /\ \A i \in 1..Len(text) : \E d \in 1..10 : DigitChars[d] = text[i]

\* int(variant[1]) for a text that is a decimal number.
RECURSIVE IntOf(_)
IntOf(text) ==
    IF text = <<>> THEN 0
    ELSE 10 * IntOf(SubSeq(text, 1, Len(text) - 1)) + DigitValue(text[Len(text)])

\* ',' in variant[4]
HasComma(alt) == Contains(alt, <<",">>)

\* An input row as the csv reader returns it: cols is the number of columns,
\* and the named columns are read only where the row has them.
InputRow(chrom, posText, ref, alt, cols) ==
    [chrom |-> chrom, POS |-> posText, REF |-> ref, ALT |-> alt, cols |-> cols]

BatchRefLens == {1, 2}
BatchAlts == {<<"T">>}
CommaAlts == {<<"T", ",", "G">>}

\* Positions at the edges of the span and of the exons, and the first base of
\* every known uORF.
EdgePositions(utr, uorfs) ==
    {utr.start, utr.start + 1, utr.end - 1, utr.end}
    \cup UNION {{utr.exons[i][1], utr.exons[i][2], utr.exons[i][2] + 1} : i \in 1..Len(utr.exons)}
    \cup {uorfs[i].anno[1] : i \in 1..Len(uorfs)}

\* Rows of an input file: well-formed rows at the edge positions, rows of
\* another chromosome, multi-allelic rows, rows whose position is not a
\* number and rows that are too short.
InputRows(utr, uorfs) ==
    {InputRow("1", DecimalText(p), GenomicREF(utr, p, n), alt, 5) :
        p \in EdgePositions(utr, uorfs), n \in BatchRefLens, alt \in BatchAlts}
    \cup {InputRow("2", DecimalText(utr.start + 1), GenomicREF(utr, utr.start + 1, 1), <<"T">>, 5)}
    \cup {InputRow("1", DecimalText(p), GenomicREF(utr, p, 1), alt, 5) :
            p \in {uorfs[i].anno[1] : i \in 1..Len(uorfs)}, alt \in CommaAlts}
    \cup {InputRow("1", <<"x">>, <<"A">>, <<"T">>, 5),
          InputRow("1", <<>>, <<"A">>, <<"T">>, 5),
          InputRow("1", <<"7">>, <<>>, <<>>, 2)}

BatchTranscripts == {[t |-> T1, ex |-> TwoExons(Len(T1.seq))]}

\* The strength label the table stores for the main Kozak context: the label
\* of the classifier, or a label that is not a key of KOZAK_STRENGTH.
StoredLabels(row) == {row.kozak_strength, "Moderate"}

InitBatch ==
    /\ pc = "loop"
    /\ tabix = NoTabix
    /\ \E tr \in BatchTranscripts, st \in {"+", "-"} :
            /\ \E label \in StoredLabels(UTRRow(tr.t.seq, tr.t.m, st, tr.ex)) :
                    UTR = [UTRRow(tr.t.seq, tr.t.m, st, tr.ex) EXCEPT !.kozak_strength = label]
            /\ transcript_uorfs = KnownUORFRows(tr.t.seq, tr.t.m, st, tr.ex, 0)
    /\ \E n \in 1..MaxBatch : input_variants \in [1..n -> InputRows(UTR, transcript_uorfs)]
    /\ nextVariant = 1
    /\ output_rows = <<>>
    /\ variant = None
    /\ relativePosition = None
    /\ mutatedSequence = None
    /\ startPOS = None
    /\ CSQ = None
    /\ uORFAnnotations = None
    /\ nextUORF = None
    /\ result = None
    /\ cmIdle
    /\ kzIdle
    /\ spIdle
    /\ mnIdle
    /\ flIdle

\* Lines 302-306 and 152-156: the next row is taken; reading variant[4] of a
\* short row raises IndexError, a row whose ALT holds a comma is passed over,
\* and int(variant[1]) raises ValueError for a position that is not a number.
\* Nothing in the loop catches an exception.
TakeRow ==
    /\ pc = "loop"
    /\ nextVariant <= Len(input_variants)
    /\ LET row == input_variants[nextVariant]
       IN  IF row.cols < 5
           THEN /\ pc' = "aborted"
                /\ UNCHANGED <<variant, nextVariant>>
           ELSE IF HasComma(row.ALT)
           THEN /\ pc' = "loop"
                /\ nextVariant' = nextVariant + 1
                /\ UNCHANGED variant
           ELSE IF ~IsDecimal(row.POS)
           THEN /\ pc' = "aborted"
                /\ UNCHANGED <<variant, nextVariant>>
           ELSE /\ pc' = "start"
                /\ variant' = [chrom |-> row.chrom, POS |-> IntOf(row.POS),
                               REF |-> row.REF, ALT |-> row.ALT]
                /\ UNCHANGED nextVariant
    /\ UNCHANGED <<cmVars, kzVars, UTR, transcript_uorfs, relativePosition, mutatedSequence,
                   startPOS, CSQ, uORFAnnotations, nextUORF, result, tabix, input_variants,
                   output_rows, transcript_INTRONs, flVars, mnVars>>

\* Lines 305-307: the rows process_variant returned are written, each with the
\* index of the input row it belongs to, and the loop goes on.
WriteRows ==
    /\ pc \in {"skipped", "dropped", "done"}
    /\ output_rows' = output_rows \o [k \in 1..Len(result) |-> [input |-> nextVariant, row |-> result[k]]]
    /\ nextVariant' = nextVariant + 1
    /\ pc' = "loop"
    /\ variant' = None
    /\ relativePosition' = None
    /\ mutatedSequence' = None
    /\ startPOS' = None
    /\ CSQ' = None
    /\ uORFAnnotations' = None
    /\ nextUORF' = None
    /\ result' = None
    /\ UNCHANGED <<cmVars, kzVars, UTR, transcript_uorfs, tabix, input_variants,
                   transcript_INTRONs, flVars, mnVars>>

\* An exception raised inside process_variant leaves process_variants.
Propagate ==
    /\ pc = "error"
    /\ pc' = "aborted"
    /\ UNCHANGED <<cmVars, kzVars, pvVars, envVars>>

\* The loop has passed the last row and the output file is closed.
CloseOutput ==
    /\ pc = "loop"
    /\ nextVariant > Len(input_variants)
    /\ pc' = "finished"
    /\ UNCHANGED <<cmVars, kzVars, pvVars, envVars>>

NextBatch == TakeRow \/ Next \/ WriteRows \/ Propagate \/ CloseOutput

SpecBatch == InitBatch /\ [][NextBatch]_vars

\* The input row a written row belongs to.
InputOf(k) == input_variants[output_rows[k].input]

MultiAllelic(row) == row.cols >= 5 /\ \E j \in 1..Len(row.ALT) : row.ALT[j] = ","

InSpan == UTR.start <= variant.POS /\ variant.POS <= UTR.end

REFInOneExon ==
    \E i \in 1..Len(UTR.exons) :
        \A g \in variant.POS..(variant.POS + LenREF - 1) :
            UTR.exons[i][1] <= g /\ g <= UTR.exons[i][2]

\* C16: process_variant returns consequence rows for a (variant, UTR) pair
\* only if the position lies within the genomic span of the UTR and every base
\* of the reference allele lies inside one single exon of it, and
\* process_variants writes no row for an input row whose ALT holds a comma.
C16_Admission ==
    /\ pc = "done" /\ result # <<>> => InSpan /\ REFInOneExon
    /\ \A k \in 1..Len(output_rows) : ~MultiAllelic(InputOf(k))

\* A finished run whose first row is multi-allelic and whose second row, on
\* the first base of a known uORF, has rows in the output.
C16_Witness ==
    /\ pc = "finished"
    /\ Len(input_variants) = 2
    /\ MultiAllelic(input_variants[1])
    /\ \E i \in 1..Len(transcript_uorfs) :
          input_variants[1].POS = DecimalText(transcript_uorfs[i].anno[1])
    /\ output_rows # <<>>
    /\ \A k \in 1..Len(output_rows) : output_rows[k].input = 2

\* C18: no row of the input makes process_variants end before the last row:
\* a row that is too short, a row whose position is not a number and a row
\* whose evaluation raises are passed over, and the run goes on to the rows
\* after it.
C18_ErrorIsolation == pc # "aborted"


(***************************************************************************)
(* Specification of main (src/fiveULTRA/__main__.py): the stages of one    *)
(* run, each reading the output of the stage before it.  A variant is kept *)
(* as what the stages make of it: whether the detection pass finds a       *)
(* consequence for it, and whether SpliceAI predicts a splice change whose  *)
(* remapping needs an intron row (insertion) or not (deletion).            *)
(***************************************************************************)

BED == "5UTRs.intervals.bed"
UTRS == "5UTRs.tsv"
UORFS == "uORFs.tsv"
INTRONS == "Introns.tsv"
SNVS == "spliceai50.5UTRs.raw.snvs.hg38.vcf.gz"
INDELS == "spliceai50.5UTRs.raw.indels.hg38.vcf.gz"

ReferenceFiles == {BED, UTRS, UORFS, INTRONS, SNVS, INDELS}

VariantKinds == [detect : BOOLEAN, splicing : {"none", "insertion", "deletion"}]

InitMain ==
    /\ pc = "m_check"
    /\ files \in SUBSET ReferenceFiles
    /\ splice \in BOOLEAN
    /\ \E n \in 1..MaxBatch : input_variants \in [1..n -> VariantKinds]
    /\ output_rows = <<>>
    /\ processed = {}
    /\ exit_status = None
    /\ nextVariant = None
    /\ tabix = NoTabix
    /\ cmIdle
    /\ kzIdle
    /\ pvIdle
    /\ spIdle
    /\ flIdle

Exit(status) ==
    /\ pc' = "m_exit"
    /\ exit_status' = status

\* Lines 95-98: the only reference file main looks for is the interval BED.
CheckData ==
    /\ pc = "m_check"
    /\ IF BED \notin files
       THEN Exit(1)
       ELSE pc' = "m_filter" /\ UNCHANGED exit_status
    /\ UNCHANGED <<cmVars, kzVars, pvVars, tabix, bvVars, transcript_INTRONs, flVars, files, splice,
                   processed>>

\* Lines 100-108: filter_input reads every row of the input and keeps the rows
\* that lie in an interval.
FilterStage ==
    /\ pc = "m_filter"
    /\ processed' = processed \cup {"filter_input"}
    /\ output_rows' = input_variants
    /\ pc' = IF splice THEN "m_splice1" ELSE "m_detection"
    /\ UNCHANGED <<cmVars, kzVars, pvVars, tabix, input_variants, nextVariant,
                   transcript_INTRONs, flVars, files, splice, exit_status>>

\* Lines 137-145 and process_variants, detection.py 284-307: load_tsv_data
\* returns an empty list for a file it cannot open, UTRs[0] or uORFs[0] then
\* raises IndexError before the loop, and main ends the run with status 1.
DetectionStage ==
    /\ pc = "m_detection"
    /\ IF UTRS \notin files \/ UORFS \notin files
       THEN Exit(1) /\ UNCHANGED <<processed, output_rows>>
       ELSE /\ processed' = processed \cup {"process_variants"}
            /\ output_rows' = SelectSeq(output_rows, LAMBDA v : v.detect)
            /\ pc' = "m_score"
            /\ UNCHANGED exit_status
    /\ UNCHANGED <<cmVars, kzVars, pvVars, tabix, input_variants, nextVariant,
                   transcript_INTRONs, flVars, files, splice>>

\* Line 123 and process_spliceai_1, spliceai1.py 66-121: FileNotFoundError when
\* one of the two SpliceAI files is missing, else every row is looked up and
\* the rows with a prediction above the cutoff are kept.
Spliceai1Stage ==
    /\ pc = "m_splice1"
    /\ IF SNVS \notin files \/ INDELS \notin files
       THEN Exit(1) /\ UNCHANGED <<processed, output_rows>>
       ELSE /\ processed' = processed \cup {"process_spliceai_1"}
            /\ output_rows' = SelectSeq(output_rows, LAMBDA v : v.splicing # "none")
            /\ pc' = "m_splice2"
            /\ UNCHANGED exit_status
    /\ UNCHANGED <<cmVars, kzVars, pvVars, tabix, input_variants, nextVariant,
                   transcript_INTRONs, flVars, files, splice>>

\* Line 124 and process_variants_spliceai_2, spliceai2.py 173-205: UTRs[0]
\* raises IndexError when 5UTRs.tsv could not be loaded; a missing Introns.tsv
\* gives an empty list, Introns[1:] is empty, no transcript has an intron row
\* and only the deletions are remapped.
Spliceai2Stage ==
    /\ pc = "m_splice2"
    /\ IF UTRS \notin files
       THEN Exit(1) /\ UNCHANGED <<processed, output_rows>>
       ELSE /\ processed' = processed \cup {"process_variants_spliceai_2"}
            /\ output_rows' =
                 SelectSeq(output_rows,
                           LAMBDA v : v.splicing = "deletion" \/ INTRONS \in files)
            /\ pc' = "m_splice3"
            /\ UNCHANGED exit_status
    /\ UNCHANGED <<cmVars, kzVars, pvVars, tabix, input_variants, nextVariant,
                   transcript_INTRONs, flVars, files, splice>>

\* Line 125 and process_variants_spliceai_3, spliceai3.py 334-360: UTRs[0] or
\* uORFs[0] raises IndexError when the table could not be loaded.
Spliceai3Stage ==
    /\ pc = "m_splice3"
    /\ IF UTRS \notin files \/ UORFS \notin files
       THEN Exit(1) /\ UNCHANGED <<processed, output_rows>>
       ELSE /\ processed' = processed \cup {"process_variants_spliceai_3"}
            /\ pc' = "m_score"
            /\ UNCHANGED <<exit_status, output_rows>>
    /\ UNCHANGED <<cmVars, kzVars, pvVars, tabix, input_variants, nextVariant,
                   transcript_INTRONs, flVars, files, splice>>

\* Lines 151-159 and score_variants, score.py 36-42: an input without rows
\* returns False and the run ends with status 1, else the rows are scored and
\* written.
ScoreStage ==
    /\ pc = "m_score"
    /\ IF output_rows = <<>>
       THEN Exit(1) /\ UNCHANGED processed
       ELSE Exit(0) /\ processed' = processed \cup {"score_variants"}
    /\ UNCHANGED <<cmVars, kzVars, pvVars, tabix, bvVars, transcript_INTRONs, flVars, files, splice>>

NextMain ==
    \/ CheckData
    \/ FilterStage
    \/ DetectionStage
    \/ Spliceai1Stage
    \/ Spliceai2Stage
    \/ Spliceai3Stage
    \/ ScoreStage

SpecMain == InitMain /\ [][NextMain]_vars

\* The reference files of the selected pipeline.
Needed == IF splice THEN ReferenceFiles ELSE {BED, UTRS, UORFS}

\* C19: when a reference file of the selected pipeline is missing, the run
\* ends with a failure status, no stage has read a variant before the failure,
\* and the run never ends successfully.
C19_ConfigurationFirst ==
    pc = "m_exit" /\ Needed \ files # {} => exit_status = 1 /\ processed = {}

(***************************************************************************)
(* Interval filter: read_bed_file and batch_process_file                   *)
(* (src/fiveULTRA/scripts/filter_input.py).  The header line of the input  *)
(* is already written; input_variants holds the data lines after it.       *)
(***************************************************************************)

MaxRegions == 3

MARGIN == 4

\* chrom[3:] if chrom.startswith('chr') else chrom
ChromKey(chrom) ==
    IF chrom = "chr1" THEN "1" ELSE IF chrom = "chr2" THEN "2" ELSE chrom

\* Ordering of Python tuples (start, end).
TupleLess(a, b) == a[1] < b[1] \/ (a[1] = b[1] /\ a[2] < b[2])

\* bed_by_chrom[chrom].sort() : insertion of one region into a sorted list.
RECURSIVE InsertRegion(_, _)
InsertRegion(sorted, region) ==
    IF sorted = <<>> THEN <<region>>
    ELSE IF TupleLess(region, Head(sorted)) THEN <<region>> \o sorted
    ELSE <<Head(sorted)>> \o InsertRegion(Tail(sorted), region)

RECURSIVE SortRegions(_)
SortRegions(regions) ==
    IF regions = <<>> THEN <<>> ELSE InsertRegion(SortRegions(Tail(regions)), Head(regions))

\* bed_by_chrom.setdefault(chrom_key, []).append((int(start), int(end)))
RECURSIVE RegionsOf(_, _)
RegionsOf(lines, key) ==
    IF lines = <<>> THEN <<>>
    ELSE (IF ChromKey(Head(lines).chrom) = key
          THEN <<<<Head(lines).start, Head(lines).end>>>> ELSE <<>>)
         \o RegionsOf(Tail(lines), key)

read_bed_file(lines) ==
    [key \in {ChromKey(lines[i].chrom) : i \in 1..Len(lines)} |->
        SortRegions(RegionsOf(lines, key))]

\* bisect.bisect_right(regions, (position, float('inf'))) on a sorted list:
\* the number of regions that are not greater than (position, inf).
bisect_right(regions, pos) ==
    Cardinality({i \in 1..Len(regions) : regions[i][1] <= pos})

\* Lines 53-61 for one data line: TRUE when the line is written.  A position
\* that is not a number raises ValueError, which skips the line.
Matches(row, by_chrom) ==
    /\ IsDecimal(row.POS)
    /\ LET pos == IntOf(row.POS) + 1
           chrom_key == ChromKey(row.chrom)
       IN  /\ chrom_key \in DOMAIN by_chrom
           /\ LET regions == by_chrom[chrom_key]
                  index == bisect_right(regions, pos)
              IN  /\ index # 0
                  /\ regions[index][1] - MARGIN <= pos
                  /\ pos <= regions[index][2] + MARGIN

BedStarts == {10, 11}
BedEnds == {11, 20}
BedLines ==
    {[chrom |-> c, start |-> s, end |-> e] :
        c \in {"chr1", "2"}, s \in BedStarts, e \in BedEnds}

FilterRow(chrom, posText) == [chrom |-> chrom, POS |-> posText]

\* The data lines of the input: every position around the regions on
\* chromosome 1, under both spellings of the chromosome, a line of a
\* chromosome without regions and a line whose position is not a number.
FilterInput ==
    [i \in 1..22 |-> FilterRow(IF i % 2 = 0 THEN "chr1" ELSE "1", DecimalText(i + 3))]
    \o <<FilterRow("chr2", DecimalText(15)), FilterRow("3", DecimalText(15)),
         FilterRow("1", <<"x">>)>>

InitFilter ==
    /\ pc = "f_bed"
    /\ \E n \in 0..MaxRegions : bed_lines \in [1..n -> BedLines]
    /\ bed_by_chrom = None
    /\ input_variants = FilterInput
    /\ nextVariant = 1
    /\ output_rows = <<>>
    /\ tabix = NoTabix
    /\ cmIdle
    /\ kzIdle
    /\ pvIdle
    /\ spIdle
    /\ mnIdle

\* filter_input, line 88: bed_by_chrom = read_bed_file(bed_file_path)
ReadBed ==
    /\ pc = "f_bed"
    /\ bed_by_chrom' = read_bed_file(bed_lines)
    /\ pc' = "f_rows"
    /\ UNCHANGED <<cmVars, kzVars, pvVars, tabix, bvVars, transcript_INTRONs, mnVars,
                   bed_lines>>

\* One iteration of the loop of batch_process_file over a data line.
FilterLine ==
    /\ pc = "f_rows"
    /\ nextVariant <= Len(input_variants)
    /\ LET row == input_variants[nextVariant]
       IN  output_rows' = IF Matches(row, bed_by_chrom)
                          THEN Append(output_rows, row) ELSE output_rows
    /\ nextVariant' = nextVariant + 1
    /\ UNCHANGED <<pc, cmVars, kzVars, pvVars, tabix, input_variants, transcript_INTRONs,
                   mnVars, flVars>>

FilterEnd ==
    /\ pc = "f_rows"
    /\ nextVariant > Len(input_variants)
    /\ pc' = "f_done"
    /\ UNCHANGED <<cmVars, kzVars, pvVars, envVars>>

NextFilter == ReadBed \/ FilterLine \/ FilterEnd

SpecFilter == InitFilter /\ [][NextFilter]_vars

(***************************************************************************)
(* Properties of the interval filter                                       *)
(***************************************************************************)

\* The data line lies in a region of its chromosome, margin included.
InsideSomeRegion(row) ==
    /\ IsDecimal(row.POS)
    /\ \E i \in 1..Len(bed_lines) :
        /\ ChromKey(bed_lines[i].chrom) = ChromKey(row.chrom)
        /\ bed_lines[i].start - MARGIN <= IntOf(row.POS) + 1
        /\ IntOf(row.POS) + 1 <= bed_lines[i].end + MARGIN

Written(row) == \E k \in 1..Len(output_rows) : output_rows[k] = row

\* C27: once the input is read, a data line is in the filtered output exactly
\* when its adjusted position (POS + 1) lies in at least one region of its
\* chromosome, the 4-base margin included, overlapping and nested regions
\* included.
C27_FilterCompleteness ==
    pc = "f_done" =>
        \A i \in 1..Len(input_variants) :
            Written(input_variants[i]) <=> InsideSomeRegion(input_variants[i])

(***************************************************************************)
(* Splice remapper: process_variant_spliceai_2 for one (variant, UTR) pair *)
(* (src/fiveULTRA/scripts/spliceai2.py).  Scores are kept in hundredths.   *)
(***************************************************************************)

cutoff == 20

\* spliceai2.py 34-46: the distance loop of this module, which counts a
\* position on the first base of an exon and passes over an exon that neither
\* lies before the position nor holds it.
RECURSIVE SpliceDistanceLoop(_, _, _, _, _)
SpliceDistanceLoop(ex, st, pos, i, dist) ==
    IF i > Len(ex) THEN dist
    ELSE LET exon_start == ex[i][1]
             exon_end == ex[i][2]
         IN  IF (st = "+" /\ exon_end < pos) \/ (st = "-" /\ exon_start > pos)
             THEN SpliceDistanceLoop(ex, st, pos, i + 1, dist + exon_end - exon_start + 1)
             ELSE IF exon_start <= pos /\ pos <= exon_end
             THEN dist + (IF st = "+" THEN pos - exon_start ELSE exon_end - pos)
             ELSE SpliceDistanceLoop(ex, st, pos, i + 1, dist)

spliceai2_distance_from_five_cap(ex, st, pos) ==
    SpliceDistanceLoop(TranscriptOrder(ex, st), st, pos, 1, 0)

\* Lines 50-58: the fields process_variant_spliceai_2 reads from the row, the
\* four positions being offsets from POS.
ParsedVariant(v) ==
    [POS |-> v.POS,
     lenREF |-> Len(v.REF),
     ALT |-> NormALT(v.ALT),
     GENE |-> v.SPLICEAI.GENE,
     AG_score |-> v.SPLICEAI.AG_score,
     DG_score |-> v.SPLICEAI.DG_score,
     AG_POS |-> v.SPLICEAI.AG_POS + v.POS,
     AL_POS |-> v.SPLICEAI.AL_POS + v.POS,
     DG_POS |-> v.SPLICEAI.DG_POS + v.POS,
     DL_POS |-> v.SPLICEAI.DL_POS + v.POS]

SyntheticVariant(newPOS, newREF, newALT, variant_type) ==
    [POS |-> newPOS, REF |-> newREF, ALT |-> newALT, type |-> variant_type]

\* next((exons[i-1][1] for i in range(1, len(exons)) if exons[i][0] == pos), None),
\* as the set of its values: empty for None, else the first match.
PreviousExonEnd(ex, pos) ==
    LET matches == {i \in 2..Len(ex) : ex[i][1] = pos}
    IN  IF matches = {} THEN {}
        ELSE {ex[(CHOOSE i \in matches : \A j \in matches : i <= j) - 1][2]}

\* Lines 74-85.
AGInsertionPlus(p, introns) ==
    LET hits == SelectSeq(introns, LAMBDA intron : p.AL_POS = intron.end)
    IN  [k \in 1..Len(hits) |->
            LET seq == hits[k].seq
                whole == <<PyAt(seq, 0)>> \o PySlice(seq, p.AG_POS - p.AL_POS - 1, -1)
                newALT ==
                    IF /\ p.AG_POS <= p.POS /\ p.POS < p.AL_POS
                       /\ p.AG_POS < p.POS + p.lenREF - 1 /\ p.POS + p.lenREF - 1 <= p.AL_POS
                    THEN PySlice(whole, 0, p.POS - p.AG_POS + 1) \o p.ALT
                         \o PyFrom(whole, p.POS - p.AG_POS + p.lenREF + 1)
                    ELSE whole
            IN  SyntheticVariant(hits[k].start, <<PyAt(seq, 0)>>, newALT, "AG_insertion_+")]

\* Lines 86-95.
AGDeletionPlus(p, utr) ==
    LET new == spliceai2_distance_from_five_cap(utr.exons, utr.strand, p.AG_POS)
        old == spliceai2_distance_from_five_cap(utr.exons, utr.strand, p.AL_POS)
        newPOS == PreviousExonEnd(utr.exons, p.AL_POS)
    IN  IF newPOS = {} \/ newPOS = {0} THEN <<>>
        ELSE <<SyntheticVariant(CHOOSE x \in newPOS : TRUE, PySlice(utr.wtSEQ, old - 1, new),
                                <<PyAt(utr.wtSEQ, old - 1)>>, "AG_deletion_+")>>

\* Lines 100-111.
DGInsertionPlus(p, introns) ==
    LET hits == SelectSeq(introns, LAMBDA intron : p.DL_POS = intron.start)
    IN  [k \in 1..Len(hits) |->
            LET seq == hits[k].seq
                whole == PySlice(seq, 0, p.DG_POS - p.DL_POS + 1)
                newALT ==
                    IF /\ p.DL_POS <= p.POS /\ p.POS <= p.DG_POS
                       /\ p.DL_POS <= p.POS + p.lenREF - 1 /\ p.POS + p.lenREF - 1 <= p.DG_POS
                    THEN PySlice(whole, 0, p.POS - p.DL_POS) \o p.ALT
                         \o PyFrom(whole, p.POS - p.DL_POS + p.lenREF)
                    ELSE whole
            IN  SyntheticVariant(hits[k].start, <<PyAt(seq, 0)>>, newALT, "DG_insertion_+")]

\* Lines 112-120.
DGDeletionPlus(p, utr) ==
    LET new == spliceai2_distance_from_five_cap(utr.exons, utr.strand, p.DG_POS)
        old == spliceai2_distance_from_five_cap(utr.exons, utr.strand, p.DL_POS)
    IN  <<SyntheticVariant(p.DG_POS, PySlice(utr.wtSEQ, new, old + 1),
                           <<PyAt(utr.wtSEQ, new)>>, "DG_deletion_+")>>

\* Lines 125-136.
AGInsertionMinus(p, introns) ==
    LET hits == SelectSeq(introns, LAMBDA intron : p.AL_POS = intron.start)
    IN  [k \in 1..Len(hits) |->
            LET seq == hits[k].seq
                whole == rev_seq(PyFrom(seq, p.AL_POS - p.AG_POS - 1))
                newALT ==
                    IF /\ p.AL_POS <= p.POS /\ p.POS <= p.AG_POS
                       /\ p.AL_POS < p.POS + p.lenREF - 1 /\ p.POS + p.lenREF - 1 <= p.AG_POS
                    THEN PySlice(whole, 0, p.POS - p.AL_POS) \o p.ALT
                         \o PyFrom(whole, p.POS - p.AG_POS + p.lenREF - 1)
                    ELSE whole
            IN  SyntheticVariant(hits[k].start, rev_seq(<<PyAt(seq, -1)>>), newALT,
                                 "AG_insertion_-")]

\* The acceptor-gain deletion of the - strand with the reference allele cut
\* one base short, at wtSEQ[old : new].
AGDeletionMinusShort(p, utr) ==
    LET new == spliceai2_distance_from_five_cap(utr.exons, utr.strand, p.AG_POS)
        old == spliceai2_distance_from_five_cap(utr.exons, utr.strand, p.AL_POS)
    IN  <<SyntheticVariant(p.AG_POS, rev_seq(PySlice(utr.wtSEQ, old, new)),
                           rev_seq(<<PyAt(utr.wtSEQ, new)>>), "AG_deletion_-")>>

\* Lines 137-145.
AGDeletionMinus(p, utr) ==
    LET new == spliceai2_distance_from_five_cap(utr.exons, utr.strand, p.AG_POS)
        old == spliceai2_distance_from_five_cap(utr.exons, utr.strand, p.AL_POS)
    IN  <<SyntheticVariant(p.AG_POS, rev_seq(PySlice(utr.wtSEQ, old, new + 1)),
                           rev_seq(<<PyAt(utr.wtSEQ, new)>>), "AG_deletion_-")>>

\* Lines 149-160.
DGInsertionMinus(p, introns) ==
    LET hits == SelectSeq(introns, LAMBDA intron : p.DL_POS = intron.end)
    IN  [k \in 1..Len(hits) |->
            LET seq == hits[k].seq
                newREF == rev_seq(<<PyAt(seq, -1)>>)
                whole == newREF \o rev_seq(PySlice(seq, 1, p.DL_POS - p.DG_POS + 1))
                newALT ==
                    IF /\ p.DG_POS <= p.POS /\ p.POS < p.DL_POS
                       /\ p.DG_POS <= p.POS + p.lenREF - 1 /\ p.POS + p.lenREF - 1 < p.DL_POS
                    THEN PySlice(whole, 0, p.POS - p.DG_POS + 1) \o p.ALT
                         \o PyFrom(whole, p.POS - p.DG_POS + p.lenREF + 1)
                    ELSE whole
            IN  SyntheticVariant(hits[k].start, newREF, newALT, "DG_insertion_-")]

\* Lines 161-170.
DGDeletionMinus(p, utr) ==
    LET new == spliceai2_distance_from_five_cap(utr.exons, utr.strand, p.DG_POS)
        old == spliceai2_distance_from_five_cap(utr.exons, utr.strand, p.DL_POS)
        newPOS == PreviousExonEnd(utr.exons, p.DL_POS)
        newALT == rev_seq(<<PyAt(utr.wtSEQ, old + 1)>>)
    IN  IF newPOS = {} \/ newPOS = {0} THEN <<>>
        ELSE <<SyntheticVariant(CHOOSE x \in newPOS : TRUE,
                                newALT \o rev_seq(PySlice(utr.wtSEQ, new + 1, old + 1)),
                                newALT, "DG_deletion_-")>>

\* Lines 74-95 and 125-145: the acceptor branch of one strand.
AcceptorRows(p, utr, introns) ==
    IF utr.strand = "+"
    THEN (IF p.AG_POS < p.AL_POS THEN AGInsertionPlus(p, introns)
          ELSE IF p.AG_POS > p.AL_POS THEN AGDeletionPlus(p, utr)
          ELSE <<>>)
    ELSE (IF p.AG_POS > p.AL_POS THEN AGInsertionMinus(p, introns)
          ELSE IF p.AG_POS < p.AL_POS THEN AGDeletionMinus(p, utr)
          ELSE <<>>)

\* Lines 100-120 and 149-170: the donor branch of one strand.
DonorRows(p, utr, introns) ==
    IF utr.strand = "+"
    THEN (IF p.DG_POS > p.DL_POS THEN DGInsertionPlus(p, introns)
          ELSE IF p.DG_POS < p.DL_POS THEN DGDeletionPlus(p, utr)
          ELSE <<>>)
    ELSE (IF p.DG_POS < p.DL_POS THEN DGInsertionMinus(p, introns)
          ELSE IF p.DG_POS > p.DL_POS THEN DGDeletionMinus(p, utr)
          ELSE <<>>)

\* Lines 69-170, the body of the loop for one UTR: each `continue` ends the
\* evaluation of the UTR, the one of the acceptor branch before the donor
\* branch is reached.
RowsOfUTR(p, utr, introns) ==
    IF p.AG_score >= cutoff /\ ~InExon(utr.exons, p.AL_POS) THEN <<>>
    ELSE LET acceptor == IF p.AG_score >= cutoff THEN AcceptorRows(p, utr, introns) ELSE <<>>
         IN  IF p.DG_score >= cutoff /\ ~InExon(utr.exons, p.DL_POS) THEN acceptor
             ELSE IF p.DG_score >= cutoff THEN acceptor \o DonorRows(p, utr, introns)
             ELSE acceptor

\* Lines 48-171 for a table that holds one UTR: a SpliceAI field that does not
\* split into nine parts raises ValueError and gives no row, a gene without
\* UTR gives no row, and the UTR is passed over when the chromosome differs or
\* POS lies outside [UTR[1], UTR[2]].
process_variant_spliceai_2(v, utr, introns) ==
    IF v.SPLICEAI.parts # 9 THEN <<>>
    ELSE LET p == ParsedVariant(v)
         IN  IF p.GENE # utr.gene THEN <<>>
             ELSE IF NormCHR(v.chrom) # utr.chrom \/ utr.start > p.POS \/ utr.end < p.POS
             THEN <<>>
             ELSE RowsOfUTR(p, utr, introns)

(***************************************************************************)
(* Specification of process_variant_spliceai_2                             *)
(***************************************************************************)

MaxOffset == 2

SpliceExons(n) == <<<<3, 9>>, <<14, n + 6>>>>

\* The four intron bases between the two exons, donor first.
IntronBases == <<"G", "T", "A", "G">>

\* The intron row of the transcript: the last base of the exon before the
\* intron, the intron and the first base of the exon after it, in the sense of
\* the transcript.
IntronRow(utr) ==
    LET a == utr.exons[1][2]
        c == utr.exons[2][1]
        plus == GenomicREF(utr, a, 1)
                \o (IF utr.strand = "+" THEN IntronBases ELSE rev_seq(IntronBases))
                \o GenomicREF(utr, c, 1)
    IN  [start |-> a, end |-> c, seq |-> IF utr.strand = "+" THEN plus ELSE rev_seq(plus)]

SplicePositions == {1} \cup 8..13
SpliceRefLens == {1, 2}
SpliceAlts == {<<".">>, <<"T">>, <<"C", "C">>}
SpliceScores == {10, 20}
Offsets == (-MaxOffset)..MaxOffset

SpliceAIFields ==
    [parts : {9}, GENE : {"G"}, AG_score : SpliceScores, DG_score : SpliceScores,
     AG_POS : Offsets, AL_POS : Offsets, DG_POS : Offsets, DL_POS : Offsets]
    \cup {[parts |-> 8, GENE |-> "G", AG_score |-> 20, DG_score |-> 20,
           AG_POS |-> 0, AL_POS |-> 0, DG_POS |-> 0, DL_POS |-> 0],
          [parts |-> 9, GENE |-> "H", AG_score |-> 20, DG_score |-> 20,
           AG_POS |-> 0, AL_POS |-> 0, DG_POS |-> 0, DL_POS |-> 0]}

InitSplice ==
    /\ pc = "sp_start"
    /\ tabix = NoTabix
    /\ \E st \in {"+", "-"} :
         UTR = [gene |-> "G"] @@ UTRRow(T1.seq, T1.m, st, SpliceExons(Len(T1.seq)))
    /\ transcript_INTRONs = <<IntronRow(UTR)>>
    /\ \E pos \in SplicePositions, n \in SpliceRefLens, alt \in SpliceAlts, s \in SpliceAIFields :
         variant = [chrom |-> "1", POS |-> pos, REF |-> GenomicREF(UTR, pos, n), ALT |-> alt,
                    SPLICEAI |-> s]
    /\ result = None
    /\ transcript_uorfs = None
    /\ relativePosition = None
    /\ mutatedSequence = None
    /\ startPOS = None
    /\ CSQ = None
    /\ uORFAnnotations = None
    /\ nextUORF = None
    /\ cmIdle
    /\ kzIdle
    /\ bvIdle
    /\ mnIdle
    /\ flIdle

Remap ==
    /\ pc = "sp_start"
    /\ result' = process_variant_spliceai_2(variant, UTR, transcript_INTRONs)
    /\ pc' = "sp_done"
    /\ UNCHANGED <<cmVars, kzVars, UTR, transcript_uorfs, variant, relativePosition,
                   mutatedSequence, startPOS, CSQ, uORFAnnotations, nextUORF, envVars>>

NextSplice == Remap

SpecSplice == InitSplice /\ [][NextSplice]_vars

\* The case of the donor-gain insertion on the plus strand, for a variant the
\* UTR is evaluated for.
DonorGainInsertionCase(intron) ==
    LET p == ParsedVariant(variant)
    IN  /\ variant.SPLICEAI.parts = 9
        /\ p.GENE = UTR.gene
        /\ NormCHR(variant.chrom) = UTR.chrom
        /\ UTR.start <= p.POS /\ p.POS <= UTR.end
        /\ UTR.strand = "+"
        /\ p.DG_score >= cutoff
        /\ p.DG_POS > p.DL_POS
        /\ InExon(UTR.exons, p.DL_POS)
        /\ intron.start = p.DL_POS

\* The intron prefix of length DG_POS - DL_POS + 1, with ALT in the place of
\* REF when the span of REF lies within [DL_POS, DG_POS].
ExpectedInsertion(intron) ==
    LET p == ParsedVariant(variant)
        prefix == PySlice(intron.seq, 0, p.DG_POS - p.DL_POS + 1)
        at == p.POS - p.DL_POS
    IN  IF p.DL_POS <= p.POS /\ p.POS + p.lenREF - 1 <= p.DG_POS
        THEN PySlice(prefix, 0, at) \o p.ALT \o PyFrom(prefix, at + p.lenREF)
        ELSE prefix

\* The intron row is long enough to have a prefix of length DG_POS - DL_POS + 1.
HasPrefix(intron) ==
    Len(intron.seq) >= ParsedVariant(variant).DG_POS - ParsedVariant(variant).DL_POS + 1

\* C17: on the plus strand, when DG_score passes the cutoff, DG_POS > DL_POS,
\* DL_POS is inside an exon and an intron of the transcript starts at DL_POS,
\* the result holds a synthetic variant of type DG_insertion_+ at the intron
\* start, whose REF is the first base of the intron row and whose ALT is the
\* intron prefix of length DG_POS - DL_POS + 1, with the ALT of the original
\* variant in the place of its REF iff the span of REF lies in [DL_POS, DG_POS].
C17_DonorGainInsertion ==
    pc = "sp_done" =>
        \A i \in 1..Len(transcript_INTRONs) :
            DonorGainInsertionCase(transcript_INTRONs[i]) =>
                \E k \in 1..Len(result) :
                    /\ result[k].type = "DG_insertion_+"
                    /\ result[k].POS = transcript_INTRONs[i].start
                    /\ result[k].REF = <<transcript_INTRONs[i].seq[1]>>
                    /\ HasPrefix(transcript_INTRONs[i])
                    /\ result[k].ALT = ExpectedInsertion(transcript_INTRONs[i])

\* The UTR overlaps the variant: process_variant_spliceai_2 reaches the body
\* of its loop for it.
Overlapping ==
    /\ variant.SPLICEAI.parts = 9
    /\ ParsedVariant(variant).GENE = UTR.gene
    /\ NormCHR(variant.chrom) = UTR.chrom
    /\ UTR.start <= variant.POS /\ variant.POS <= UTR.end

\* The synthetic variants of one event kind taken by itself: those of its
\* branch when its score passes the cutoff and its loss position lies inside
\* an exon, none otherwise.
AcceptorEvent ==
    LET p == ParsedVariant(variant)
    IN  IF p.AG_score >= cutoff /\ InExon(UTR.exons, p.AL_POS)
        THEN AcceptorRows(p, UTR, transcript_INTRONs) ELSE <<>>

DonorEvent ==
    LET p == ParsedVariant(variant)
    IN  IF p.DG_score >= cutoff /\ InExon(UTR.exons, p.DL_POS)
        THEN DonorRows(p, UTR, transcript_INTRONs) ELSE <<>>

\* C22: for an overlapping UTR the acceptor event and the donor event are
\* evaluated independently: the result is the synthetic variants of the
\* acceptor event followed by those of the donor event, each produced exactly
\* when its own score passes the cutoff and its own loss position lies inside
\* an exon, whatever the score and the loss position of the other event.
C22_EventIndependence ==
    pc = "sp_done" /\ Overlapping => result = AcceptorEvent \o DonorEvent

\* The plus-strand base at genomic position g of an intron row, whose sequence
\* runs from the row's start to its end in the sense of the transcript.
IntronBase(intron, g) ==
    IF UTR.strand = "+" THEN intron.seq[g - intron.start + 1]
    ELSE Complement(intron.seq[intron.end - g + 1])

\* The plus-strand bases of the intron row at genomic lo .. hi.
BasesOfIntron(intron, lo, hi) == [j \in 1..(hi - lo + 1) |-> IntronBase(intron, lo + j - 1)]

\* The genomic span that an insertion case retains, from the gain and loss
\* positions of its event.
RetainedSpan(type) ==
    LET p == ParsedVariant(variant)
    IN  CASE type = "AG_insertion_+" -> <<p.AG_POS, p.AL_POS - 1>>
          [] type = "DG_insertion_+" -> <<p.DL_POS, p.DG_POS>>
          [] type = "AG_insertion_-" -> <<p.AL_POS, p.AG_POS>>
          [] type = "DG_insertion_-" -> <<p.DG_POS, p.DL_POS - 1>>

\* The retained piece of an insertion case: the bases of the retained span,
\* after the base at the start of the intron row when the span does not begin
\* there.
RetainedPiece(type, intron) ==
    LET span == RetainedSpan(type)
        bases == BasesOfIntron(intron, span[1], span[2])
    IN  IF type \in {"AG_insertion_+", "DG_insertion_-"}
        THEN <<IntronBase(intron, intron.start)>> \o bases
        ELSE bases

\* The span of REF lies within the retained span.
REFWithin(type) ==
    /\ RetainedSpan(type)[1] <= variant.POS
    /\ variant.POS + Len(variant.REF) - 1 <= RetainedSpan(type)[2]

InsertionTypes == {"AG_insertion_+", "DG_insertion_+", "AG_insertion_-", "DG_insertion_-"}

\* C24: in each of the four insertion cases, when the REF span lies within the
\* retained span and the edit is spliced in, newALT has the length of the
\* retained piece plus len(ALT) - len(REF), also when the REF span ends on the
\* boundary of the retained span; when the REF span is not within the retained
\* span, newALT is the retained piece unmodified.
C24_SplicedEditLength ==
    pc = "sp_done" =>
        \A k \in 1..Len(result), i \in 1..Len(transcript_INTRONs) :
            LET type == result[k].type
                intron == transcript_INTRONs[i]
            IN  /\ type \in InsertionTypes
                /\ intron.start <= RetainedSpan(type)[1]
                /\ RetainedSpan(type)[2] <= intron.end
                => LET piece == RetainedPiece(type, intron)
                   IN  IF REFWithin(type)
                       THEN \/ result[k].ALT = piece
                            \/ Len(result[k].ALT) =
                                 Len(piece) + Len(NormALT(variant.ALT)) - Len(variant.REF)
                       ELSE result[k].ALT = piece

DeletionTypes == {"AG_deletion_+", "DG_deletion_+", "AG_deletion_-", "DG_deletion_-"}

\* <<gain position, loss position>> of the event of a synthetic variant.
EventPositions(type) ==
    LET p == ParsedVariant(variant)
    IN  IF type \in {"AG_deletion_+", "AG_deletion_-", "AG_insertion_+", "AG_insertion_-"}
        THEN <<p.AG_POS, p.AL_POS>> ELSE <<p.DG_POS, p.DL_POS>>

SameExon(a, b) ==
    \E i \in 1..Len(UTR.exons) :
        /\ UTR.exons[i][1] <= a /\ a <= UTR.exons[i][2]
        /\ UTR.exons[i][1] <= b /\ b <= UTR.exons[i][2]

Distance(a, b) == IF a < b THEN b - a ELSE a - b

\* The plus-strand bases, read from the transcript sequence, of the exon
\* segment between the gain and the loss position that a deletion case
\* removes, after the base that stays in front of it: the base at the end of
\* the previous exon when the segment begins an exon, the base at the gain
\* position otherwise.
LostSegment(type) ==
    LET gain == EventPositions(type)[1]
        loss == EventPositions(type)[2]
        before == CHOOSE x \in PreviousExonEnd(UTR.exons, loss) : TRUE
    IN  IF type \in {"AG_deletion_+", "DG_deletion_-"}
        THEN GenomicREF(UTR, before, 1) \o GenomicREF(UTR, loss, gain - loss)
        ELSE GenomicREF(UTR, gain, loss - gain + 1)

\* C25: a synthetic variant of one of the four deletion cases whose gain and
\* loss positions lie in the same exon has an alternate allele of exactly one
\* base, the first base of its reference allele, and a reference allele of
\* length |gain - loss| + 1 taken from the transcript sequence
\* (reverse-complemented on the - strand).
C25_ExonShortening ==
    pc = "sp_done" =>
        \A k \in 1..Len(result) :
            LET type == result[k].type
                gain == EventPositions(type)[1]
                loss == EventPositions(type)[2]
            IN  type \in DeletionTypes /\ SameExon(gain, loss) =>
                    /\ Len(result[k].ALT) = 1
                    /\ result[k].ALT[1] = result[k].REF[1]
                    /\ Len(result[k].REF) = Distance(gain, loss) + 1
                    /\ result[k].REF = LostSegment(type)

\* An acceptor-gain deletion on the - strand, for an event within one exon
\* that removes two bases.
C25_Witness ==
    /\ pc = "sp_done"
    /\ \E k \in 1..Len(result) :
          /\ result[k].type = "AG_deletion_-"
          /\ SameExon(EventPositions(result[k].type)[1], EventPositions(result[k].type)[2])
          /\ Len(result[k].REF) = 3

(***************************************************************************)
(* Provenance of the synthetic variants: the identifier written by          *)
(* process_variant_spliceai_2 and split by process_variant_spliceai_3      *)
(* (src/fiveULTRA/scripts/spliceai3.py).  A text is a sequence of          *)
(* characters; a chromosome name is kept as one character-like token.      *)
(***************************************************************************)

VariantIDs == {<<".">>, <<"r", "s", "1">>, <<"a", "_", "b">>}

ProvenancePositions == {10, 11}
ProvenanceAlts == {<<".">>, <<"T">>}

ProvenanceFields ==
    [parts : {9}, GENE : {"G"}, AG_score : {cutoff}, DG_score : {cutoff},
     AG_POS : Offsets, AL_POS : Offsets, DG_POS : Offsets, DL_POS : Offsets]

\* '_'.join(fields)
RECURSIVE JoinUnderscore(_)
JoinUnderscore(fields) ==
    IF Len(fields) = 1 THEN fields[1]
    ELSE fields[1] \o <<"_">> \o JoinUnderscore(Tail(fields))

\* text.split('_')
RECURSIVE SplitUnderscore(_)
SplitUnderscore(text) ==
    IF \A i \in 1..Len(text) : text[i] # "_" THEN <<text>>
    ELSE LET i == CHOOSE j \in 1..Len(text) :
                      text[j] = "_" /\ \A k \in 1..(j - 1) : text[k] # "_"
         IN  <<SubSeq(text, 1, i - 1)>> \o SplitUnderscore(SubSeq(text, i + 1, Len(text)))

\* f'{CHR}_{POS}_{variant[2]}_{REF}_{ALT}'
Provenance(v) ==
    JoinUnderscore(<<<<NormCHR(v.chrom)>>, DecimalText(v.POS), v.ID, v.REF, NormALT(v.ALT)>>)

InitProvenance ==
    /\ pc = "sp_start"
    /\ tabix = NoTabix
    /\ \E st \in {"+", "-"} :
         UTR = [gene |-> "G"] @@ UTRRow(T1.seq, T1.m, st, SpliceExons(Len(T1.seq)))
    /\ transcript_INTRONs = <<IntronRow(UTR)>>
    /\ \E c \in {"1", "chr1"}, pos \in ProvenancePositions, id \in VariantIDs,
          alt \in ProvenanceAlts, s \in ProvenanceFields :
         variant = [chrom |-> c, POS |-> pos, ID |-> id, REF |-> GenomicREF(UTR, pos, 1),
                    ALT |-> alt, SPLICEAI |-> s]
    /\ result = None
    /\ output_rows = <<>>
    /\ nextVariant = None
    /\ input_variants = None
    /\ transcript_uorfs = None
    /\ relativePosition = None
    /\ mutatedSequence = None
    /\ startPOS = None
    /\ CSQ = None
    /\ uORFAnnotations = None
    /\ nextUORF = None
    /\ cmIdle
    /\ kzIdle
    /\ mnIdle
    /\ flIdle

\* process_variant_spliceai_2 with the last columns of its rows:
\* [..., variant[2], ...] + [UTR[6], f'{CHR}_{POS}_{variant[2]}_{REF}_{ALT}', variant_type]
RemapWithProvenance ==
    /\ pc = "sp_start"
    /\ LET rows == process_variant_spliceai_2(variant, UTR, transcript_INTRONs)
       IN  result' = [k \in 1..Len(rows) |->
                        [row |-> rows[k], ID |-> variant.ID, provenance |-> Provenance(variant)]]
    /\ nextVariant' = 1
    /\ pc' = "sp3_rows"
    /\ UNCHANGED <<cmVars, kzVars, UTR, transcript_uorfs, variant, relativePosition,
                   mutatedSequence, startPOS, CSQ, uORFAnnotations, nextUORF, tabix,
                   input_variants, output_rows, transcript_INTRONs, mnVars, flVars>>

\* Line 330 of process_variant_spliceai_3 for a hit of a synthetic variant: the
\* leading columns of the output row are variant[-2].split('_'), the event type
\* is variant[-1].
ProvenanceColumns ==
    /\ pc = "sp3_rows"
    /\ nextVariant <= Len(result)
    /\ output_rows' = Append(output_rows,
           [lead |-> SplitUnderscore(result[nextVariant].provenance),
            type |-> result[nextVariant].row.type])
    /\ nextVariant' = nextVariant + 1
    /\ UNCHANGED <<pc, cmVars, kzVars, pvVars, tabix, input_variants, transcript_INTRONs,
                   mnVars, flVars>>

ProvenanceEnd ==
    /\ pc = "sp3_rows"
    /\ nextVariant > Len(result)
    /\ pc' = "sp3_done"
    /\ UNCHANGED <<cmVars, kzVars, pvVars, envVars>>

NextProvenance == RemapWithProvenance \/ ProvenanceColumns \/ ProvenanceEnd

SpecProvenance == InitProvenance /\ [][NextProvenance]_vars

EventTypes ==
    {"AG_insertion_+", "AG_deletion_+", "DG_insertion_+", "DG_deletion_+",
     "AG_insertion_-", "AG_deletion_-", "DG_insertion_-", "DG_deletion_-"}

PlusTypes == {"AG_insertion_+", "AG_deletion_+", "DG_insertion_+", "DG_deletion_+"}

\* The five leading fields of the original variant, as process_variant_spliceai_2
\* reads them.
OriginalFields ==
    <<<<NormCHR(variant.chrom)>>, DecimalText(variant.POS), variant.ID, variant.REF,
      NormALT(variant.ALT)>>

\* C29: the event type of every synthetic variant is one of the eight labels,
\* with the strand of the UTR as its suffix, and the split of its provenance
\* identifier on '_' gives exactly the five fields chromosome, position, ID, REF
\* and ALT of the original variant, so that an output row of the splice pass has
\* as many columns as the header.
C29_ProvenanceRoundTrip ==
    pc = "sp3_done" =>
        \A k \in 1..Len(output_rows) :
            /\ output_rows[k].type \in EventTypes
            /\ output_rows[k].type \in PlusTypes <=> UTR.strand = "+"
            /\ Len(output_rows[k].lead) = 5
            /\ output_rows[k].lead = OriginalFields

(***************************************************************************)
(* Specification of the coordinate mapper alone: a round trip of one       *)
(* genomic position through both conversions.                              *)
(***************************************************************************)

MaxCoord == 8
MaxExons == 2

ExonIntervals == {iv \in (1..MaxCoord) \X (1..MaxCoord) : iv[1] <= iv[2]}

\* Non-empty exon lists, sorted ascending by start, pairwise non-overlapping.
ExonLists ==
    UNION {
        {ex \in [1..n -> ExonIntervals] :
            \A i \in 1..(n - 1) : ex[i][2] < ex[i + 1][1]}
        : n \in 1..MaxExons}

InitCoord ==
    /\ pc = "cm_start"
    /\ exons \in ExonLists
    /\ strand \in {"+", "-"}
    /\ position \in {p \in 1..MaxCoord : InExon(exons, p)}
    /\ distance = None
    /\ genomic = None
    /\ kzIdle
    /\ pvIdle
    /\ tabix = NoTabix
    /\ bvIdle
    /\ spIdle
    /\ mnIdle
    /\ flIdle

ToRelative ==
    /\ pc = "cm_start"
    /\ distance' = calculate_distance_from_five_cap(exons, strand, position)
    /\ pc' = "cm_relative"
    /\ UNCHANGED <<exons, strand, position, genomic, kzVars, pvVars, envVars>>

ToGenomic ==
    /\ pc = "cm_relative"
    /\ genomic' = calculate_genomic_position_from_five_cap(exons, strand, distance)
    /\ pc' = "cm_genomic"
    /\ UNCHANGED <<exons, strand, position, distance, kzVars, pvVars, envVars>>

NextCoord == ToRelative \/ ToGenomic

SpecCoord == InitCoord /\ [][NextCoord]_vars

\* C1: for every sorted, non-overlapping exon set, both strands and every
\* genomic position p inside an exon, converting p to a distance from the
\* 5' cap and back yields p again.
C1_RoundTrip == pc = "cm_genomic" => genomic = position

(***************************************************************************)
(* Specification of the Kozak classifier alone.                            *)
(***************************************************************************)

MaxKozakLen == 10

\* Contexts of length n: the two positions the classifier reads (index 1 and
\* the second-to-last) and the first position range over all bases, the rest
\* is filled with C.
KozakInputs(n) ==
    {[i \in 1..n |-> IF i = 1 THEN a ELSE IF i = 2 THEN b ELSE IF i = n - 1 THEN c ELSE "C"] :
        a \in Bases, b \in Bases, c \in Bases}

InitKozak ==
    /\ pc = "kz_start"
    /\ kozak_sequence \in UNION {KozakInputs(n) : n \in 0..MaxKozakLen}
    /\ strength = None
    /\ cmIdle
    /\ pvIdle
    /\ tabix = NoTabix
    /\ bvIdle
    /\ spIdle
    /\ mnIdle
    /\ flIdle

Classify ==
    /\ pc = "kz_start"
    /\ strength' = calculate_kozak_strength(kozak_sequence)
    /\ pc' = "kz_done"
    /\ UNCHANGED <<kozak_sequence, cmVars, pvVars, envVars>>

NextKozak == Classify

SpecKozak == InitKozak /\ [][NextKozak]_vars

KozakCond1(s) == Len(s) >= 2 /\ PyAt(s, 1) \in {"A", "G"}
KozakCond2(s) == Len(s) >= 2 /\ PyAt(s, -2) = "G"

\* C3: the classifier returns Strong iff index 1 is A or G and the
\* second-to-last character is G, Adequate iff exactly one of the two holds,
\* Weak iff neither holds, and the Unknown value (the empty string) for every
\* input whose length is not exactly 9.
C3_KozakRule ==
    pc = "kz_done" =>
        IF Len(kozak_sequence) # 9 THEN strength = ""
        ELSE /\ strength = "Strong" <=> (KozakCond1(kozak_sequence) /\ KozakCond2(kozak_sequence))
             /\ strength = "Adequate" <=> (KozakCond1(kozak_sequence) # KozakCond2(kozak_sequence))
             /\ strength = "Weak" <=> (~KozakCond1(kozak_sequence) /\ ~KozakCond2(kozak_sequence))

====
